---- MODULE Spec2Model ----
(***************************************************************************)
(* Model of the streaming core of the dify API:                            *)
(*   - RateLimit / RateLimitGenerator (core/app/features/rate_limiting)    *)
(*   - AppGenerateService.generate    (services/app_generate_service.py)   *)
(*   - AppQueueManager / MessageBasedAppQueueManager (core/app/apps)       *)
(* Redis is the only state shared between processes.  Every action is one  *)
(* step of a thread between two accesses to shared state (a Redis command  *)
(* or a queue operation).                                                  *)
(*                                                                         *)
(* Two specifications share the variables:                                 *)
(*   Spec   the concurrency limiter, the service and the leased stream     *)
(*   SpecQ  the task channel, the stop protocol and the drain loop         *)
(***************************************************************************)
EXTENDS Integers, Sequences, FiniteSets, TLC

(***************************************************************************)
(* Bounds of the model                                                     *)
(***************************************************************************)
MaxNow == 601          \* the limiter's clock stops here (seconds)
MaxItems == 1          \* elements a wrapped stream can still produce
MaxTicks == 2          \* seconds the channel's clock counts one by one
MaxJumps == 1          \* long pauses of the channel's clock
MaxPub == 2            \* events the producer of a task publishes
MaxCloses == 1         \* direct calls of stop_listen on a task
MaxDepth == 2          \* nesting of containers in the payload of an event
MaxWidth == 2          \* values in one container of a payload
MaxChecked == 1        \* publishes whose payload is followed
MaxApiLimit == 2       \* greatest limit given to RateLimit when called directly
MaxConfigured == 8     \* greatest limit of an app or of the configuration
APP_MAX_EXECUTION_TIME == 601  \* the configured dify_config.APP_MAX_EXECUTION_TIME

Procs == {"p1", "p2"}              \* OS processes, one request thread each
Clients == {"app-1"}               \* client_id = app.id
MaxUuids == 1                      \* request ids of one process that can be live at once
MaxLimit == 1                      \* greatest max_active_requests of an app
Limits == 0..MaxLimit              \* results of _get_max_active_requests

(***************************************************************************)
(* Program constants                                                       *)
(***************************************************************************)
_UNLIMITED_REQUEST_ID == "unlimited_request_id"
_REQUEST_MAX_ALIVE_TIME == 10 * 60
_ACTIVE_REQUESTS_COUNT_FLUSH_INTERVAL == 5 * 60
ONE_DAY == 86400

NoKey == [exists |-> FALSE]        \* a Redis key that does not exist
NoInst == [exists |-> FALSE]       \* no entry in RateLimit._instance_dict
NoRid == "none"

\* the values of uuid4 in each process
Uuids == [p \in Procs |-> IF p = "p1" THEN <<"a1", "a2", "a3">>
                                      ELSE <<"b1", "b2", "b3">>]

VARIABLES
    now,          \* time.time(), in seconds
    \* ---- Redis, limiter keys ----
    maxKey,       \* [client] dify:rate_limit:{}:max_active_requests (value, expiry)
    active,       \* [client] dify:rate_limit:{}:active_requests, hash request_id -> timestamp
    activeExp,    \* [client] expiry of the hash key, -1 when it has none
    \* ---- per process ----
    inst,         \* [proc][client] RateLimit._instance_dict
    req,          \* [proc] the thread running AppGenerateService.generate
    wrap,         \* [proc] the RateLimitGenerator handed to the consumer
    maxEver,      \* [client] history: greatest limit any instance has held
    \* ---- Redis, task keys, and the task channels (SpecQ) ----
    belong,       \* [task] generate_task_belong:{task_id}
    stopped,      \* [task] generate_task_stopped:{task_id}
    chan,         \* [task] the queue manager of the task and its two threads
    last_stop,    \* history: the latest call of set_stop_flag
    last_publish, \* history: the calls of publish whose payload is followed
    last_call     \* history: the latest direct call of a method of RateLimit

varsRL == <<maxKey, active, activeExp, inst, req, wrap, maxEver>>
varsQ == <<belong, stopped, chan, last_stop>>
varsP == <<last_publish, last_call>>
vars == <<now, varsRL, varsQ, varsP>>

(***************************************************************************)
(* Redis hash commands on the lease hash                                   *)
(***************************************************************************)
hlen(h) == Cardinality(DOMAIN h)

hset(h, k, v) == [x \in (DOMAIN h) \cup {k} |-> IF x = k THEN v ELSE h[x]]

hdel(h, ks) == [x \in (DOMAIN h) \ ks |-> h[x]]

EmptyHash == [x \in {} |-> 0]

(***************************************************************************)
(* RateLimit                                                               *)
(***************************************************************************)
\* a limiter that is switched off by a negative limit only
disabled_negative(max) == max < 0

\* lines 99-100
disabled(max) == max <= 0

\* a reconcile that is due as soon as the interval has elapsed
flush_due_at_interval(last, t) == t - last >= _ACTIVE_REQUESTS_COUNT_FLUSH_INTERVAL

\* the test of enter, line 74: more than the interval has elapsed since
\* last_recalculate_time
flush_due(last, t) == t - last > _ACTIVE_REQUESTS_COUNT_FLUSH_INTERVAL

\* a reconcile that reclaims a lease as soon as it has reached the maximum
timeout_requests_early(h, t) ==
    {k \in DOMAIN h : t - h[k] >= _REQUEST_MAX_ALIVE_TIME}

\* a reconcile that lets a lease live one second longer
timeout_requests_late(h, t) ==
    {k \in DOMAIN h : t - h[k] > _REQUEST_MAX_ALIVE_TIME + 1}

\* the keys flush_cache deletes: leases whose age exceeds the maximum
timeout_requests(h, t) ==
    {k \in DOMAIN h : t - h[k] > _REQUEST_MAX_ALIVE_TIME}

\* flush_cache on instance i of client c: the instance after it
flush_cache_inst(i, c, use_local_value) ==
    IF disabled(i.max) THEN i
    ELSE [i EXCEPT !.last = now,
                   !.max = IF use_local_value \/ ~maxKey[c].exists
                           THEN i.max ELSE maxKey[c].val]

\* a reconcile that reads the config key without renewing its expiry
flush_cache_maxKey_unrefreshed(i, c, use_local_value) ==
    IF disabled(i.max) THEN maxKey[c]
    ELSE IF use_local_value \/ ~maxKey[c].exists
         THEN [exists |-> TRUE, val |-> i.max, exp |-> now + ONE_DAY]
         ELSE maxKey[c]

\* flush_cache: the config key after it
flush_cache_maxKey(i, c, use_local_value) ==
    IF disabled(i.max) THEN maxKey[c]
    ELSE IF use_local_value \/ ~maxKey[c].exists
         THEN [exists |-> TRUE, val |-> i.max, exp |-> now + ONE_DAY]
         ELSE [maxKey[c] EXCEPT !.exp = now + ONE_DAY]

\* flush_cache: the lease hash after it
flush_cache_active(i, c) ==
    IF disabled(i.max) \/ hlen(active[c]) = 0 THEN active[c]
    ELSE hdel(active[c], timeout_requests(active[c], now))

\* flush_cache: the expiry of the lease hash after it
flush_cache_activeExp(i, c) ==
    IF disabled(i.max) \/ hlen(active[c]) = 0 THEN activeExp[c]
    ELSE IF hlen(flush_cache_active(i, c)) = 0 THEN -1 ELSE now + ONE_DAY

\* an exit that deletes nothing
exit_hash_kept(h, request_id) == h

\* an exit that deletes the whole hash
exit_hash_all(h, request_id) ==
    IF request_id = _UNLIMITED_REQUEST_ID THEN h ELSE EmptyHash

\* RateLimit.exit on the lease hash
exit_hash(h, request_id) ==
    IF request_id = _UNLIMITED_REQUEST_ID THEN h ELSE hdel(h, {request_id})

\* the hash key disappears with its last field
exp_after(h, e) == IF hlen(h) = 0 THEN -1 ELSE e

\* at_call is history: the size of the lease hash when enter was called
\* task is the task_id of the queue manager the request has built
IdleReq == [pc |-> "idle", client |-> "app-1", rid |-> NoRid, cnt |-> 0,
            at_call |-> 0, streaming |-> TRUE, result |-> "none", task |-> "none"]

NoWrap == [open |-> FALSE]

(***************************************************************************)
(* The task channel: AppQueueManager and MessageBasedAppQueueManager       *)
(***************************************************************************)
Tasks == {"t1"}                    \* task ids
UserIds == {"u1", "u2"}
InvokeFroms == {"debugger", "explore", "web-app"}
\* who starts the tasks of the model: (invoke_from, user_id)
Owners == {<<"debugger", "u1">>, <<"web-app", "u1">>}

TASK_BELONG_TTL == 1800
TASK_STOPPED_TTL == 600
POLL_TIMEOUT == 1
PING_INTERVAL == 10

\* an item of the queue; n numbers the events of the producer from 1 and is
\* 0 for what the drain loop and stop_listen put
Item(type, n) == [type |-> type, n |-> n]
None == Item("None", 0)

\* a _publish that does not close the channel after an End event
is_terminal_without_end(type) ==
    type \in {"QueueStopEvent", "QueueErrorEvent", "QueueAdvancedChatMessageEndEvent"}

\* the event classes after which _publish calls stop_listen, lines 49-52
is_terminal(type) ==
    type \in {"QueueStopEvent", "QueueErrorEvent", "QueueMessageEndEvent",
              "QueueAdvancedChatMessageEndEvent"}

\* the manager of a task before AppQueueManager.__init__ has run.
\* db_closed counts the calls of db.session.close() by the worker.
\* rexc tells how runner.run ended ("none" while it runs, "return", or the
\* class of what it raised) and wend how _generate_worker ended ("none"
\* while it runs, "returned", or the class of what it raised).
\* hist (everything ever put on the queue), out (what listen has yielded)
\* and stop_at are history.  stop_at tells about the first Stop event that
\* listen has put because of the stop flag in an iteration that goes on
\* looping: its place in out, or -1 if a close sentinel was queued before it.
NoChan == [created |-> FALSE, user_id |-> "", invoke_from |-> "",
           q |-> <<>>, hist |-> <<>>, out |-> <<>>,
           lpc |-> "none", after |-> "loop", start_time |-> 0, last_ping_time |-> 0,
           waited |-> 0, ppc |-> "none", sent |-> 0, closes |-> 0,
           stop_at |-> 0, rexc |-> "none", wend |-> "none", db_closed |-> 0]

\* a key that all tasks share
_generate_stopped_cache_key_shared(task_id) == "generate_task_stopped:"

\* _generate_stopped_cache_key, lines 141-148
_generate_stopped_cache_key(task_id) == "generate_task_stopped:" \o task_id

\* the value Redis holds under the stop key of a task
stop_flag(t) == stopped[_generate_stopped_cache_key(t)]

InitQ ==
    /\ belong = [t \in Tasks |-> NoKey]
    /\ stopped = [k \in {_generate_stopped_cache_key(t) : t \in Tasks} |-> NoKey]
    /\ chan = [t \in Tasks |-> NoChan]
    /\ last_stop = <<>>

InitRL ==
    /\ maxKey = [c \in Clients |-> NoKey]
    /\ active = [c \in Clients |-> EmptyHash]
    /\ activeExp = [c \in Clients |-> -1]
    /\ inst = [p \in Procs |-> [c \in Clients |-> NoInst]]
    /\ req = [p \in Procs |-> IdleReq]
    /\ wrap = [p \in Procs |-> NoWrap]
    /\ maxEver = [c \in Clients |-> 0]

NoCall == [seq |-> 0, op |-> "none", proc |-> "", client |-> "", arg |-> "",
           result |-> "none", ops |-> <<>>]

Init == now = 0 /\ InitRL /\ InitQ /\ last_publish = <<>> /\ last_call = NoCall

(***************************************************************************)
(* AppGenerateService.generate, one request thread per process             *)
(***************************************************************************)
Max2(a, b) == IF a >= b THEN a ELSE b

\* min() of a list of integers that is not empty
RECURSIVE min(_)
min(limits) ==
    IF Len(limits) = 1 THEN limits[1]
    ELSE LET m == min(Tail(limits))
         IN  IF limits[1] <= m THEN limits[1] ELSE m

\* app.max_active_requests or 0, line 166: None and 0 are falsy.  A column
\* value is <<n>>, an empty column (None) is <<>>.
or_zero(value) == IF value = <<>> \/ value[1] = 0 THEN 0 ELSE value[1]

\* the filter of line 170
is_positive(limit) == limit > 0

\* the smaller of the two values, whatever they are
_get_min_of_both(app_limit, config_limit) ==
    min(<<or_zero(app_limit), config_limit>>)

\* _get_max_active_requests, lines 152-171
_get_max_active_requests(app_limit, config_limit) ==
    LET limits == SelectSeq(<<or_zero(app_limit), config_limit>>, is_positive)
    IN  IF limits # <<>> THEN min(limits) ELSE 0

\* RateLimit.__new__ and __init__: the instance of client c in process p
\* after RateLimit(c, m), before the flush_cache of a first initialization
rate_limit_init(p, c, m) ==
    IF inst[p][c].exists
    THEN [inst[p][c] EXCEPT !.max = m]
    ELSE [exists |-> TRUE, max |-> m, initialized |-> FALSE, last |-> 0]

first_init(p, c, m) == ~disabled(m) /\ ~rate_limit_init(p, c, m).initialized

\* the request ids some lease or some running request still refers to
live_ids ==
    UNION {DOMAIN active[c] : c \in DOMAIN active} \cup {req[p].rid : p \in Procs}

\* gen_request_key, lines 102-105: a uuid4 is an id nothing refers to; the
\* model hands out the first such id of the process
fresh_ids(p) == {n \in 1..MaxUuids : Uuids[p][n] \notin live_ids}

gen_request_key(p) ==
    Uuids[p][CHOOSE n \in fresh_ids(p) : \A k \in fresh_ids(p) : n <= k]

\* generate, lines 47-67, and enter, lines 70-78: the daily limiter,
\* RateLimit(app.id, max), gen_request_key, then in enter the disabled
\* short cut and the periodic flush_cache.  At most one flush_cache runs:
\* the one of a first initialization sets last_recalculate_time to now.
GenerateStart(p, c, m, streaming, daily_limited) ==
    /\ req[p].pc = "idle"
    /\ fresh_ids(p) # {}
    /\ IF daily_limited
       THEN /\ req' = [req EXCEPT ![p] = [IdleReq EXCEPT !.pc = "raised",
                                                         !.result = "InvokeRateLimitError",
                                                         !.client = c,
                                                         !.streaming = streaming]]
            /\ UNCHANGED <<maxKey, active, activeExp, inst, maxEver>>
       ELSE LET i1 == rate_limit_init(p, c, m)
                i2 == [i1 EXCEPT !.initialized = TRUE]
                first == first_init(p, c, m)
                i3 == IF first THEN i2 ELSE i1
                flush == ~disabled(m) /\
                         (first \/ flush_due(i1.last, now))
            IN  /\ IF flush
                   THEN /\ inst' = [inst EXCEPT ![p][c] = flush_cache_inst(i3, c, first)]
                        /\ maxKey' = [maxKey EXCEPT ![c] = flush_cache_maxKey(i3, c, first)]
                        /\ active' = [active EXCEPT ![c] = flush_cache_active(i3, c)]
                        /\ activeExp' = [activeExp EXCEPT ![c] = flush_cache_activeExp(i3, c)]
                   ELSE /\ inst' = [inst EXCEPT ![p][c] = i3]
                        /\ UNCHANGED <<maxKey, active, activeExp>>
                /\ maxEver' = [maxEver EXCEPT ![c] = Max2(Max2(@, m), inst'[p][c].max)]
                /\ req' = [req EXCEPT ![p] =
                             [pc |-> IF disabled(m) THEN "generate" ELSE "count",
                              client |-> c,
                              rid |-> IF disabled(m) THEN _UNLIMITED_REQUEST_ID
                                      ELSE gen_request_key(p),
                              cnt |-> 0,
                              at_call |-> IF disabled(m) THEN 0 ELSE hlen(active[c]),
                              streaming |-> streaming, result |-> "none",
                              task |-> "none"]]
    /\ UNCHANGED <<now, wrap, varsQ, varsP>>

\* enter, line 81: active_requests_count = redis_client.hlen(...)
EnterCount(p) ==
    /\ req[p].pc = "count"
    /\ req' = [req EXCEPT ![p].cnt = hlen(active[req[p].client]),
                          ![p].pc = "decide"]
    /\ UNCHANGED <<now, maxKey, active, activeExp, inst, wrap, maxEver, varsQ, varsP>>

\* a limiter that admits one request more than the limit
refused_late(count, max) == count > max

\* the admission test of enter, line 82
refused(count, max) == count >= max

\* enter, lines 82-90: raise AppInvokeQuotaExceededError, or hset and return
EnterDecide(p) ==
    LET c == req[p].client
    IN  /\ req[p].pc = "decide"
        /\ IF refused(req[p].cnt, inst[p][c].max)
           THEN /\ req' = [req EXCEPT ![p].pc = "except",
                                      ![p].result = "AppInvokeQuotaExceededError"]
                /\ UNCHANGED <<active, activeExp>>
           ELSE /\ active' = [active EXCEPT ![c] = hset(@, req[p].rid, now)]
                /\ activeExp' = activeExp
                /\ req' = [req EXCEPT ![p].pc = "generate"]
        /\ UNCHANGED <<now, maxKey, inst, wrap, maxEver, varsQ, varsP>>

\* what the app generator call of lines 70-142 can do
Outcomes == {"ok", "ValueError", "RateLimitError", "Exception"}

\* rate_limit.generate, lines 107-114, and RateLimitGenerator.__init__
new_wrapper(c, request_id, has_close) ==
    [open |-> TRUE, client |-> c, request_id |-> request_id, closed |-> FALSE,
     left |-> MaxItems, has_close |-> has_close, genClosed |-> FALSE,
     exits |-> 0, ended |-> FALSE]

\* generate, lines 70-142 and, when nothing is raised, the finally of 148-150
AppGenerate(p, outcome, has_close) ==
    LET c == req[p].client
    IN  /\ req[p].pc = "generate"
        /\ IF outcome = "ok"
           THEN IF req[p].streaming
                THEN /\ wrap' = [wrap EXCEPT ![p] = new_wrapper(c, req[p].rid, has_close)]
                     /\ req' = [req EXCEPT ![p].pc = "streaming", ![p].result = "stream",
                                           ![p].cnt = 0, ![p].at_call = 0]
                     /\ UNCHANGED <<active, activeExp>>
                ELSE /\ active' = [active EXCEPT ![c] = exit_hash(@, req[p].rid)]
                     /\ activeExp' = [activeExp EXCEPT ![c] = exp_after(active'[c], @)]
                     /\ req' = [req EXCEPT ![p].pc = "returned", ![p].result = "mapping",
                                           ![p].cnt = 0, ![p].at_call = 0]
                     /\ wrap' = wrap
           ELSE /\ req' = [req EXCEPT ![p].pc = "except", ![p].result = outcome]
                /\ UNCHANGED <<active, activeExp, wrap>>
        /\ UNCHANGED <<now, maxKey, inst, maxEver, varsQ, varsP>>

\* which except clause of lines 143-147 releases the lease
handler_exits(exc) == exc # "RateLimitError"

\* generate, lines 143-150: the except clauses and the finally
Handler(p) ==
    LET c == req[p].client
        exc == req[p].result
        h1 == IF handler_exits(exc) THEN exit_hash(active[c], req[p].rid) ELSE active[c]
        h2 == IF ~req[p].streaming THEN exit_hash(h1, req[p].rid) ELSE h1
    IN  /\ req[p].pc = "except"
        /\ active' = [active EXCEPT ![c] = h2]
        /\ activeExp' = [activeExp EXCEPT ![c] = exp_after(h2, @)]
        /\ req' = [req EXCEPT ![p].pc = "raised", ![p].cnt = 0, ![p].at_call = 0,
                              ![p].result = IF exc = "RateLimitError"
                                            THEN "InvokeRateLimitError" ELSE exc]
        /\ UNCHANGED <<now, maxKey, inst, wrap, maxEver, varsQ, varsP>>

(***************************************************************************)
(* RateLimitGenerator                                                      *)
(***************************************************************************)
\* a close that does not look at self.closed
close_unguarded(w) ==
    [w EXCEPT !.closed = TRUE, !.exits = @ + 1, !.genClosed = w.has_close]

\* close, lines 138-146, on the wrapper object
close(w) ==
    IF w.closed THEN w
    ELSE [w EXCEPT !.closed = TRUE, !.exits = @ + 1, !.genClosed = w.has_close]

\* close, line 143, on the lease hash
close_hash(w, h) == IF w.closed THEN h ELSE exit_hash(h, w.request_id)

\* what next(self.generator) can do
Pulls == {"item", "StopIteration", "Exception"}

\* a wrapper that releases on errors only, not on exhaustion
caught_errors_only(pull) == pull = "Exception"

\* the exceptions of next(self.generator) that __next__ answers with close
caught(pull) == pull \in {"StopIteration", "Exception"}

\* __next__, lines 128-136, on the wrapper and the lease hash
__next__(p, pull) ==
    LET w == wrap[p]
        c == w.client
        w1 == IF caught(pull) THEN close(w) ELSE w
    IN  /\ req[p].pc = "streaming"
        /\ IF w.closed
           THEN /\ pull = "StopIteration"
                /\ wrap' = wrap
                /\ UNCHANGED <<active, activeExp>>
           ELSE /\ pull = "item" => w.left > 0
                /\ wrap' = [wrap EXCEPT ![p] =
                              [w1 EXCEPT !.left = IF pull = "item" THEN @ - 1 ELSE @,
                                         !.ended = pull # "item"]]
                /\ active' = [active EXCEPT
                                ![c] = IF caught(pull) THEN close_hash(w, @) ELSE @]
                /\ activeExp' = [activeExp EXCEPT ![c] = exp_after(active'[c], @)]
        /\ UNCHANGED <<now, maxKey, inst, req, maxEver, varsQ, last_publish>>

\* the consumer pulls from the wrapper
WrapNext(p, pull) == __next__(p, pull) /\ UNCHANGED last_call

\* close, lines 138-146, called by the consumer, on the wrapper and the
\* lease hash
close_call(p) ==
    LET w == wrap[p]
        c == w.client
    IN  /\ req[p].pc = "streaming"
        /\ wrap' = [wrap EXCEPT ![p] = [close(w) EXCEPT !.ended = TRUE]]
        /\ active' = [active EXCEPT ![c] = close_hash(w, @)]
        /\ activeExp' = [activeExp EXCEPT ![c] = exp_after(active'[c], @)]
        /\ UNCHANGED <<now, maxKey, inst, req, maxEver, varsQ, last_publish>>

\* the consumer calls close
WrapClose(p) == close_call(p) /\ UNCHANGED last_call

\* the request is over: generate has returned or raised, and the wrapper of
\* a streamed response is dropped; the thread takes the next request.  A
\* consumer that neither exhausted nor closed the stream leaves here
\* without any exit.
RequestDone(p) ==
    /\ req[p].pc \in {"streaming", "raised", "returned"}
    /\ req' = [req EXCEPT ![p] = IdleReq]
    /\ wrap' = [wrap EXCEPT ![p] = NoWrap]
    /\ UNCHANGED <<now, maxKey, active, activeExp, inst, maxEver, varsQ, varsP>>

\* Time passes while every thread is between two requests or serving a
\* stream: the steps of one call of generate take no time on the scale of
\* the limiter's intervals.
TickSteps == {_ACTIVE_REQUESTS_COUNT_FLUSH_INTERVAL,
              _ACTIVE_REQUESTS_COUNT_FLUSH_INTERVAL + 1}

Tick(d) ==
    /\ now + d <= MaxNow
    /\ \A p \in Procs : req[p].pc \in {"idle", "streaming"}
    /\ now' = now + d
    /\ UNCHANGED <<varsRL, varsQ, varsP>>

Next ==
    \/ \E p \in Procs, c \in Clients, m \in Limits, s \in BOOLEAN,
          d \in BOOLEAN : GenerateStart(p, c, m, s, d)
    \/ \E p \in Procs : EnterCount(p)
    \/ \E p \in Procs : EnterDecide(p)
    \/ \E p \in Procs, o \in Outcomes, h \in BOOLEAN : AppGenerate(p, o, h)
    \/ \E p \in Procs : Handler(p)
    \/ \E p \in Procs, pull \in Pulls : WrapNext(p, pull)
    \/ \E p \in Procs : WrapClose(p)
    \/ \E p \in Procs : RequestDone(p)
    \/ \E d \in TickSteps : Tick(d)

Spec == Init /\ [][Next]_vars

\* the request thread that is followed step by step where one is singled out
Watched == {"p1"}

(***************************************************************************)
(* _get_max_active_requests on every pair of an app's limit (None when the *)
(* column is empty) and the configured APP_MAX_ACTIVE_REQUESTS.            *)
(***************************************************************************)
AppLimitValues == {<<>>} \cup {<<n>> : n \in -1..MaxConfigured}
ConfigLimitValues == -1..MaxConfigured

GetMaxActiveRequests(app_limit, config_limit) ==
    /\ last_call' = [seq |-> 1 - last_call.seq, op |-> "_get_max_active_requests",
                     proc |-> "", client |-> "",
                     arg |-> [app_limit |-> app_limit, config_limit |-> config_limit],
                     result |-> _get_max_active_requests(app_limit, config_limit),
                     ops |-> <<>>]
    /\ UNCHANGED <<now, varsRL, varsQ, last_publish>>

NextMax ==
    \E a \in AppLimitValues, g \in ConfigLimitValues : GetMaxActiveRequests(a, g)

SpecMax == Init /\ [][NextMax]_vars

(***************************************************************************)
(* The lease of a request whose consumer pulls the stream until it ends or *)
(* closes it: the wrapper is dropped only once it is closed.  Threads keep *)
(* running: a call of generate goes on to its return or raise, and the     *)
(* consumer goes on pulling.                                               *)
(***************************************************************************)
\* the request is over; the consumer of a stream has exhausted or closed it
ConsumerDone(p) ==
    /\ req[p].pc = "streaming" => wrap[p].closed
    /\ RequestDone(p)

GenerateSteps(p) ==
    \/ EnterCount(p) \/ EnterDecide(p) \/ Handler(p)
    \/ \E o \in Outcomes, h \in BOOLEAN : AppGenerate(p, o, h)

ConsumerSteps(p) ==
    \/ \E pull \in Pulls : WrapNext(p, pull)
    \/ WrapClose(p)

NextLease ==
    \/ \E p \in Procs, c \in Clients, m \in Limits, s \in BOOLEAN,
          d \in BOOLEAN : GenerateStart(p, c, m, s, d)
    \/ \E p \in Procs : EnterCount(p)
    \/ \E p \in Procs : EnterDecide(p)
    \/ \E p \in Procs, o \in Outcomes, h \in BOOLEAN : AppGenerate(p, o, h)
    \/ \E p \in Procs : Handler(p)
    \/ \E p \in Procs, pull \in Pulls : WrapNext(p, pull)
    \/ \E p \in Procs : WrapClose(p)
    \/ \E p \in Procs : ConsumerDone(p)
    \/ \E d \in TickSteps : Tick(d)

FairSpecLease ==
    /\ Init /\ [][NextLease]_vars
    /\ \A p \in Procs : WF_vars(GenerateSteps(p)) /\ WF_vars(ConsumerSteps(p))

(***************************************************************************)
(* RateLimit called directly: any process constructs the limiter of a      *)
(* client with any limit and calls enter, exit and flush_cache with any    *)
(* request id, one call at a time.  last_call records the latest call: its *)
(* arguments, what it returned or raised, and the Redis commands it sent.  *)
(***************************************************************************)
ApiLimits == 0..MaxApiLimit
\* the request_id arguments: none, or an id of the caller's
RequestIds == {"", "r1"}

Called(op, p, c, arg, result, ops) ==
    [seq |-> 1 - last_call.seq, op |-> op, proc |-> p, client |-> c, arg |-> arg,
     result |-> result, ops |-> ops]

\* the Redis commands of flush_cache, lines 44-66, on instance i
flush_cache_ops(i, c, use_local_value) ==
    IF disabled(i.max) THEN <<>>
    ELSE (IF use_local_value THEN <<"setex">>
          ELSE IF ~maxKey[c].exists THEN <<"exists", "setex">>
          ELSE <<"exists", "get", "expire">>)
         \o (IF hlen(active[c]) = 0 THEN <<"exists">>
             ELSE <<"exists", "hgetall", "expire">>
                  \o (IF timeout_requests(active[c], now) # {} THEN <<"hdel">>
                      ELSE <<>>))

\* RateLimit(c, m): __new__, lines 23-28, and __init__, lines 30-42
New(p, c, m) ==
    LET i1 == rate_limit_init(p, c, m)
        first == first_init(p, c, m)
        i2 == [i1 EXCEPT !.initialized = TRUE]
    IN  /\ IF first
           THEN /\ inst' = [inst EXCEPT ![p][c] = flush_cache_inst(i2, c, TRUE)]
                /\ maxKey' = [maxKey EXCEPT ![c] = flush_cache_maxKey(i2, c, TRUE)]
                /\ active' = [active EXCEPT ![c] = flush_cache_active(i2, c)]
                /\ activeExp' = [activeExp EXCEPT ![c] = flush_cache_activeExp(i2, c)]
           ELSE /\ inst' = [inst EXCEPT ![p][c] = i1]
                /\ UNCHANGED <<maxKey, active, activeExp>>
        /\ last_call' = Called("RateLimit", p, c, "", "instance",
                               IF first THEN flush_cache_ops(i2, c, TRUE) ELSE <<>>)
        /\ maxEver' = [maxEver EXCEPT ![c] = Max2(@, m)]
        /\ UNCHANGED <<now, req, wrap, varsQ, last_publish>>

\* the message of AppInvokeQuotaExceededError, lines 83-86
QuotaExceeded(client_id, max) ==
    "Too many requests for " \o client_id \o " limit " \o ToString(max)

\* enter, lines 68-90, as one step
Enter(p, c, request_id) ==
    LET i == inst[p][c]
        flush == flush_due(i.last, now)
        i1 == IF flush THEN flush_cache_inst(i, c, FALSE) ELSE i
        h1 == IF flush THEN flush_cache_active(i, c) ELSE active[c]
        rid == IF request_id = "" THEN gen_request_key(p) ELSE request_id
        active_requests_count == hlen(h1)
        ops1 == IF flush THEN flush_cache_ops(i, c, FALSE) ELSE <<>>
    IN  /\ i.exists
        /\ request_id = "" => fresh_ids(p) # {}
        /\ IF disabled(i.max)
           THEN /\ last_call' = Called("enter", p, c, request_id,
                                       _UNLIMITED_REQUEST_ID, <<>>)
                /\ UNCHANGED <<inst, maxKey, active, activeExp>>
           ELSE /\ inst' = [inst EXCEPT ![p][c] = i1]
                /\ maxKey' = IF flush
                             THEN [maxKey EXCEPT ![c] = flush_cache_maxKey(i, c, FALSE)]
                             ELSE maxKey
                /\ IF refused(active_requests_count, i1.max)
                   THEN /\ active' = [active EXCEPT ![c] = h1]
                        /\ activeExp' = IF flush
                                        THEN [activeExp EXCEPT
                                                ![c] = flush_cache_activeExp(i, c)]
                                        ELSE activeExp
                        /\ last_call' = Called("enter", p, c, request_id,
                                               QuotaExceeded(c, i1.max),
                                               ops1 \o <<"hlen">>)
                   ELSE /\ active' = [active EXCEPT ![c] = hset(h1, rid, now)]
                        /\ activeExp' = IF flush
                                        THEN [activeExp EXCEPT
                                                ![c] = flush_cache_activeExp(i, c)]
                                        ELSE activeExp
                        /\ last_call' = Called("enter", p, c, request_id, rid,
                                               ops1 \o <<"hlen", "hset">>)
        /\ UNCHANGED <<now, req, wrap, maxEver, varsQ, last_publish>>

\* the record of a call of exit: hdel_reply is Redis's reply to the hdel of
\* line 97, the number of fields it deleted (0 where no hdel was sent)
ExitCalled(p, c, request_id, result, ops, hdel_reply) ==
    [seq |-> 1 - last_call.seq, op |-> "exit", proc |-> p, client |-> c,
     arg |-> request_id, result |-> result, ops |-> ops, hdel_reply |-> hdel_reply]

\* exit, lines 92-97.  self.active_requests_key exists only on an instance
\* that __init__ has initialized (line 38).
Exit(p, c, request_id) ==
    LET i == inst[p][c]
    IN  /\ i.exists
        /\ IF request_id = _UNLIMITED_REQUEST_ID
           THEN /\ last_call' = ExitCalled(p, c, request_id, "None", <<>>, 0)
                /\ UNCHANGED <<active, activeExp>>
           ELSE IF ~i.initialized
           THEN /\ last_call' = ExitCalled(p, c, request_id, "AttributeError", <<>>, 0)
                /\ UNCHANGED <<active, activeExp>>
           ELSE /\ active' = [active EXCEPT ![c] = exit_hash(@, request_id)]
                /\ activeExp' = [activeExp EXCEPT ![c] = exp_after(active'[c], @)]
                /\ last_call' = ExitCalled(p, c, request_id, "None", <<"hdel">>,
                                           hlen(active[c]) - hlen(active'[c]))
        /\ UNCHANGED <<now, maxKey, inst, req, wrap, maxEver, varsQ, last_publish>>

\* flush_cache, lines 44-66, called on its own
FlushCache(p, c, use_local_value) ==
    LET i == inst[p][c]
    IN  /\ i.exists
        /\ inst' = [inst EXCEPT ![p][c] = flush_cache_inst(i, c, use_local_value)]
        /\ maxKey' = [maxKey EXCEPT ![c] = flush_cache_maxKey(i, c, use_local_value)]
        /\ active' = [active EXCEPT ![c] = flush_cache_active(i, c)]
        /\ activeExp' = [activeExp EXCEPT ![c] = flush_cache_activeExp(i, c)]
        /\ last_call' = Called("flush_cache", p, c, "", "None",
                               flush_cache_ops(i, c, use_local_value))
        /\ UNCHANGED <<now, req, wrap, maxEver, varsQ, last_publish>>

\* the ids exit is called with
ExitIds == {"r1", _UNLIMITED_REQUEST_ID} \cup {Uuids[p][n] : p \in Procs, n \in 1..MaxUuids}

NextApi ==
    \/ \E p \in Procs, c \in Clients, m \in ApiLimits : New(p, c, m)
    \/ \E p \in Procs, c \in Clients, r \in RequestIds : Enter(p, c, r)
    \/ \E p \in Procs, c \in Clients, r \in ExitIds : Exit(p, c, r)
    \/ \E p \in Procs, c \in Clients, u \in BOOLEAN : FlushCache(p, c, u)
    \/ \E d \in TickSteps : Tick(d)

SpecApi == Init /\ [][NextApi]_vars

(***************************************************************************)
(* The limiters of two clients: one process constructs the limiter of      *)
(* either client and calls enter and exit on it; no time passes.            *)
(***************************************************************************)
TwoClients == {"app-1", "app-2"}

InitTwoClients ==
    /\ now = 0 /\ InitQ /\ last_publish = <<>> /\ last_call = NoCall
    /\ maxKey = [c \in TwoClients |-> NoKey]
    /\ active = [c \in TwoClients |-> EmptyHash]
    /\ activeExp = [c \in TwoClients |-> -1]
    /\ inst = [p \in Procs |-> [c \in TwoClients |-> NoInst]]
    /\ req = [p \in Procs |-> IdleReq]
    /\ wrap = [p \in Procs |-> NoWrap]
    /\ maxEver = [c \in TwoClients |-> 0]

NextTwoClients ==
    \/ \E c \in TwoClients, m \in ApiLimits : New("p1", c, m)
    \/ \E c \in TwoClients, r \in RequestIds : Enter("p1", c, r)
    \/ \E c \in TwoClients, r \in ExitIds : Exit("p1", c, r)

SpecTwoClients == InitTwoClients /\ [][NextTwoClients]_vars

(***************************************************************************)
(* The wrapper called directly: the generate flow hands out wrappers and    *)
(* the consumer calls __next__ and close on them, any number of times, in   *)
(* any order.  last_call records the latest call of the watched consumer    *)
(* and what it returned or raised.                                          *)
(***************************************************************************)
\* the Redis commands of close, lines 138-146, on wrapper w
close_ops(w) ==
    IF w.closed \/ w.request_id = _UNLIMITED_REQUEST_ID THEN <<>> ELSE <<"hdel">>

\* a call of __next__, lines 128-136: an item is returned, the rest is raised
WrapNextCall(p, pull) ==
    /\ __next__(p, pull)
    /\ last_call' = Called("__next__", p, wrap[p].client, "", pull,
                           IF caught(pull) THEN close_ops(wrap[p]) ELSE <<>>)

\* a call of close, lines 138-146
WrapCloseCall(p) ==
    /\ close_call(p)
    /\ last_call' = Called("close", p, wrap[p].client, "", "None",
                           close_ops(wrap[p]))

NextWrap ==
    \/ \E p \in Procs, c \in Clients, m \in Limits, s \in BOOLEAN,
          d \in BOOLEAN : GenerateStart(p, c, m, s, d)
    \/ \E p \in Procs : EnterCount(p)
    \/ \E p \in Procs : EnterDecide(p)
    \/ \E p \in Procs, o \in Outcomes, h \in BOOLEAN : AppGenerate(p, o, h)
    \/ \E p \in Procs : Handler(p)
    \/ \E p \in Watched, pull \in Pulls : WrapNextCall(p, pull)
    \/ \E p \in Watched : WrapCloseCall(p)
    \/ \E p \in Procs \ Watched, pull \in Pulls : WrapNext(p, pull)
    \/ \E p \in Procs \ Watched : WrapClose(p)
    \/ \E p \in Procs : RequestDone(p)
    \/ \E d \in TickSteps : Tick(d)

SpecWrap == Init /\ [][NextWrap]_vars

(***************************************************************************)
(* The task channel: the Redis records                                     *)
(***************************************************************************)
\* a store whose keys never expire
redis_get_no_ttl(k) == IF k.exists THEN <<k.val>> ELSE <<>>

\* redis_client.get: the value of a key, or nothing once it has expired
redis_get(k) == IF k.exists /\ now < k.exp THEN <<k.val>> ELSE <<>>

\* a canonical class that is the raw invoke_from
user_prefix_raw(invoke_from) == invoke_from

\* base_app_queue_manager.py lines 39 and 113
user_prefix(invoke_from) ==
    IF invoke_from \in {"explore", "debugger"} THEN "account" ELSE "end-user"

\* an ownership record that forgets the user id
belong_value_class_only(invoke_from, user_id) == user_prefix(invoke_from)

\* the value of the ownership record, lines 41 and 114
belong_value(invoke_from, user_id) == user_prefix(invoke_from) \o "-" \o user_id

\* _is_stopped, lines 120-130
_is_stopped(t) == redis_get(stop_flag(t)) # <<>>

\* a queue that hands out the newest item first
q_put_front(ch, item) == [ch EXCEPT !.q = <<item>> \o @, !.hist = Append(@, item)]

\* queue.Queue.put
q_put(ch, item) == [ch EXCEPT !.q = Append(@, item), !.hist = Append(@, item)]

\* AppQueueManager.__init__, lines 30-46, and the start of the worker thread
CreateTask(t, o) ==
    /\ ~chan[t].created
    /\ belong' = [belong EXCEPT ![t] =
                     [exists |-> TRUE, val |-> belong_value(o[1], o[2]),
                      exp |-> now + TASK_BELONG_TTL]]
    /\ chan' = [chan EXCEPT ![t] = [NoChan EXCEPT !.created = TRUE,
                                                  !.invoke_from = o[1],
                                                  !.user_id = o[2],
                                                  !.ppc = "run"]]
    /\ UNCHANGED <<now, stopped, last_stop, varsRL, varsP>>

\* set_stop_flag, lines 106-118
SetStopFlag(t, invoke_from, user_id) ==
    LET result == redis_get(belong[t])
    IN  /\ stopped' =
              IF result = <<>> THEN stopped
              ELSE IF result[1] # belong_value(invoke_from, user_id) THEN stopped
              ELSE [stopped EXCEPT ![_generate_stopped_cache_key(t)] =
                       [exists |-> TRUE, val |-> 1, exp |-> now + TASK_STOPPED_TTL]]
        /\ UNCHANGED <<now, belong, chan, varsRL, varsP>>

\* a stop request while the channel of the task runs
StopRequest(t, invoke_from, user_id) ==
    /\ chan[t].lpc \notin {"none", "done"}
    /\ SetStopFlag(t, invoke_from, user_id)
    /\ UNCHANGED last_stop

(***************************************************************************)
(* The producer side: publish with PublishFrom.APPLICATION_MANAGER         *)
(***************************************************************************)
ProducerEvents == {"QueueLLMChunkEvent", "QueueMessageEndEvent"}

\* what runner.run raises besides GenerateTaskStoppedError, one of each
\* except clause of _generate_worker, lines 262-278
RunnerErrors == {"InvokeAuthorizationError", "ValidationError", "ValueError",
                 "Exception"}

\* a worker that lets a ValueError pass like a cancellation
except_clause_passes_value_error(exc) ==
    IF exc \in {"GenerateTaskStoppedError", "ValueError"}
    THEN "returned" ELSE "publish_error"

\* a worker that reports the cancellation like any other failure
except_clause_reports_all(exc) == "publish_error"

\* _generate_worker, lines 259-279: what the except clause of exc does when
\* runner.run raises exc; without publish_error the worker returns
except_clause(exc) ==
    IF exc = "GenerateTaskStoppedError" THEN "returned" ELSE "publish_error"

\* a worker that closes the session at the end of its try block only
finally_clause_on_return(before, after) ==
    IF before.wend = "none" /\ after.wend = "returned"
    THEN [after EXCEPT !.db_closed = @ + 1] ELSE after

\* _generate_worker, lines 280-282: the finally clause runs db.session.close()
\* when the worker ends, by a return or by an error that leaves it
finally_clause(before, after) ==
    IF before.wend = "none" /\ after.wend # "none"
    THEN [after EXCEPT !.db_closed = @ + 1] ELSE after

\* a _publish that raises for every publisher
raises_stopped_any_publisher(pub_from, is_stopped) == is_stopped

\* the test of _publish, line 54: GenerateTaskStoppedError is raised
raises_stopped(pub_from, is_stopped) ==
    pub_from = "APPLICATION_MANAGER" /\ is_stopped

\* _publish, line 46 and, for an event that is not terminal, lines 54-55:
\* q.put(message), then GenerateTaskStoppedError if the task is stopped
_publish(t, type) ==
    LET ch == chan[t]
        raises == ~is_terminal(type)
                  /\ raises_stopped("APPLICATION_MANAGER", _is_stopped(t))
    IN  finally_clause(ch,
          [q_put(ch, Item(type, ch.sent + 1)) EXCEPT
            !.sent = @ + 1,
            !.ppc = IF is_terminal(type) THEN "sentinel"
                    ELSE IF raises THEN "done" ELSE "run",
            !.rexc = IF raises THEN "GenerateTaskStoppedError" ELSE @,
            !.wend = IF raises THEN except_clause("GenerateTaskStoppedError") ELSE @])

\* publish of an event whose payload passes the check of line 93
ProducerPublish(t, type) ==
    /\ chan[t].ppc = "run"
    /\ chan[t].sent < MaxPub
    /\ chan' = [chan EXCEPT ![t] = _publish(t, type)]
    /\ UNCHANGED <<now, belong, stopped, last_stop, varsRL, varsP>>

\* _publish, lines 49-55, for a terminal event: stop_listen puts the close
\* sentinel, then GenerateTaskStoppedError if the task is stopped
\* Called by the runner, the error is caught by the worker; called by
\* publish_error in an except clause of the worker, it leaves the worker.
ProducerSentinel(t) ==
    LET ch == chan[t]
        raises == raises_stopped("APPLICATION_MANAGER", _is_stopped(t))
        in_runner == ch.rexc = "none"
    IN  /\ ch.ppc = "sentinel"
        /\ chan' = [chan EXCEPT ![t] = finally_clause(ch,
                      [q_put(ch, None) EXCEPT
                         !.ppc = IF raises \/ ~in_runner THEN "done" ELSE "run",
                         !.rexc = IF raises /\ in_runner
                                  THEN "GenerateTaskStoppedError" ELSE @,
                         !.wend = IF in_runner
                                  THEN (IF raises
                                        THEN except_clause("GenerateTaskStoppedError")
                                        ELSE @)
                                  ELSE (IF raises THEN "GenerateTaskStoppedError"
                                        ELSE "returned")])]
        /\ UNCHANGED <<now, belong, stopped, last_stop, varsRL, varsP>>

\* the runner returns and the worker thread ends, lines 251-256 and 279-282
ProducerFinish(t) ==
    /\ chan[t].ppc = "run"
    /\ chan' = [chan EXCEPT ![t] = finally_clause(chan[t],
                  [chan[t] EXCEPT !.ppc = "done", !.rexc = "return",
                                  !.wend = "returned"])]
    /\ UNCHANGED <<now, belong, stopped, last_stop, varsRL, varsP>>

\* runner.run raises exc and the except clause of the worker starts
\* publish_error, base_app_queue_manager.py lines 82-89: publish of a
\* QueueErrorEvent, up to the q.put of _publish
RunnerRaise(t, exc) ==
    /\ chan[t].ppc = "run"
    /\ chan' = [chan EXCEPT ![t] =
                  IF except_clause(exc) = "publish_error"
                  THEN [_publish(t, "QueueErrorEvent") EXCEPT !.rexc = exc]
                  ELSE finally_clause(chan[t],
                         [chan[t] EXCEPT !.ppc = "done", !.rexc = exc,
                                         !.wend = "returned"])]
    /\ UNCHANGED <<now, belong, stopped, last_stop, varsRL, varsP>>

\* stop_listen, lines 75-80, called on its own once the worker has ended
StopListen(t) ==
    LET ch == chan[t]
    IN  /\ ch.ppc = "done"
        /\ ch.closes < MaxCloses
        /\ chan' = [chan EXCEPT ![t] = [q_put(ch, None) EXCEPT !.closes = @ + 1]]
        /\ UNCHANGED <<now, belong, stopped, last_stop, varsRL, varsP>>

(***************************************************************************)
(* listen, lines 48-73: the drain loop, a generator run by its consumer    *)
(***************************************************************************)
\* lines 66-68: QueueStopEvent(stopped_by=QueueStopEvent.StopBy.USER_MANUAL)
StopEvent == [type |-> "QueueStopEvent", n |-> 0, stopped_by |-> "USER_MANUAL"]
PingEvent == Item("QueuePingEvent", 0)

\* line 63
elapsed_time(t) == now - chan[t].start_time

\* a loop that stops on the stop flag only
stop_due_flag_only(t) == _is_stopped(t)

\* a loop that stops on the time budget only
stop_due_timeout_only(t) == elapsed_time(t) >= APP_MAX_EXECUTION_TIME

\* the test of line 65
stop_due(t) == elapsed_time(t) >= APP_MAX_EXECUTION_TIME \/ _is_stopped(t)

\* a heartbeat that is sent again within its interval
ping_due_same_bucket(t) == elapsed_time(t) \div PING_INTERVAL >= chan[t].last_ping_time

\* a heartbeat that skips every other interval
ping_due_late(t) == elapsed_time(t) \div PING_INTERVAL > chan[t].last_ping_time + 1

\* the test of line 71
ping_due(t) == elapsed_time(t) \div PING_INTERVAL > chan[t].last_ping_time

\* lines 71-73 on the manager
ping(t, ch) ==
    IF ping_due(t)
    THEN [q_put(ch, PingEvent) EXCEPT
             !.last_ping_time = elapsed_time(t) \div PING_INTERVAL]
    ELSE ch

\* where the generator goes when its finally block is over
leave_finally(ch) ==
    [ch EXCEPT !.lpc = IF ch.after = "exit" THEN "done" ELSE "get",
               !.waited = 0]

\* the consumer pulls for the first time: lines 50-52
ListenStart(t) ==
    LET ch == chan[t]
    IN  /\ ch.created
        /\ ch.lpc = "none"
        /\ chan' = [chan EXCEPT ![t] = [ch EXCEPT !.lpc = "get", !.waited = 0,
                                                  !.start_time = now,
                                                  !.last_ping_time = 0]]
        /\ UNCHANGED <<now, belong, stopped, last_stop, varsRL, varsP>>

\* queue.Queue.get on a queue that is not empty
q_get(ch) == [ch EXCEPT !.q = Tail(@)]

\* lines 56-59: q.get returns a message; None breaks, anything else is yielded
ListenGet(t) ==
    LET ch == chan[t]
        message == Head(ch.q)
    IN  /\ ch.lpc = "get"
        /\ ch.q # <<>>
        /\ chan' = [chan EXCEPT ![t] =
                      IF message = None
                      THEN [q_get(ch) EXCEPT !.lpc = "finally", !.after = "exit"]
                      ELSE [q_get(ch) EXCEPT !.lpc = "yield", !.after = "loop",
                                             !.out = Append(@, message)]]
        /\ UNCHANGED <<now, belong, stopped, last_stop, varsRL, varsP>>

\* lines 56 and 60-61: q.get times out after one second
ListenEmpty(t) ==
    LET ch == chan[t]
    IN  /\ ch.lpc = "get"
        /\ ch.q = <<>>
        /\ ch.waited >= POLL_TIMEOUT
        /\ chan' = [chan EXCEPT ![t] = [ch EXCEPT !.lpc = "finally", !.after = "loop"]]
        /\ UNCHANGED <<now, belong, stopped, last_stop, varsRL, varsP>>

\* the consumer pulls again: the generator resumes after its yield
ListenResume(t) ==
    LET ch == chan[t]
    IN  /\ ch.lpc = "yield"
        /\ chan' = [chan EXCEPT ![t] = [ch EXCEPT !.lpc = "finally"]]
        /\ UNCHANGED <<now, belong, stopped, last_stop, varsRL, varsP>>

\* lines 62-73, up to the first put: with a stop due, q.put of the Stop event
\* (line 46 under line 66); without, the heartbeat of lines 71-73
ListenFinally(t) ==
    LET ch == chan[t]
    IN  /\ ch.lpc = "finally"
        /\ chan' = [chan EXCEPT ![t] =
                      IF stop_due(t)
                      THEN [q_put(ch, StopEvent) EXCEPT
                              !.lpc = "stop_listen",
                              !.stop_at =
                                 IF @ = 0 /\ ch.after = "loop" /\ _is_stopped(t)
                                 THEN IF \A k \in 1..Len(ch.q) : ch.q[k] # None
                                      THEN Len(ch.out) + Len(ch.q) + 1 ELSE -1
                                 ELSE @]
                      ELSE leave_finally(ping(t, ch))]
        /\ UNCHANGED <<now, belong, stopped, last_stop, varsRL, varsP>>

\* lines 49-55 of _publish under line 66: stop_listen after the Stop event,
\* then the test of line 54 with PublishFrom.TASK_PIPELINE; an error would
\* leave the generator
ListenStopListen(t) ==
    LET ch == chan[t]
    IN  /\ ch.lpc = "stop_listen"
        /\ chan' = [chan EXCEPT ![t] =
                      [q_put(ch, None) EXCEPT
                         !.lpc = IF raises_stopped("TASK_PIPELINE", _is_stopped(t))
                                 THEN "raised" ELSE "ping"]]
        /\ UNCHANGED <<now, belong, stopped, last_stop, varsRL, varsP>>

\* lines 70-73 after a Stop event
ListenPing(t) ==
    LET ch == chan[t]
    IN  /\ ch.lpc = "ping"
        /\ chan' = [chan EXCEPT ![t] =
                      IF ping_due(t) /\ raises_stopped("TASK_PIPELINE", _is_stopped(t))
                      THEN [ping(t, ch) EXCEPT !.lpc = "raised"]
                      ELSE leave_finally(ping(t, ch))]
        /\ UNCHANGED <<now, belong, stopped, last_stop, varsRL, varsP>>

(***************************************************************************)
(* Time of the channel.  The consumer starts to pull as soon as the       *)
(* manager exists.  A blocked q.get lets one second pass and then times    *)
(* out; the other steps of the loop take no time.  A long pause happens     *)
(* while a consumer has suspended its generator and no loop is polling.    *)
(***************************************************************************)
LONG_PAUSE == TASK_STOPPED_TTL

\* a store that drops a key one second before its time to live is over
expire_early(keys, t) ==
    [k \in DOMAIN keys |->
        IF keys[k].exists /\ t >= keys[k].exp - 1 THEN NoKey ELSE keys[k]]

\* Redis drops the keys whose time to live is over at time t
expire(keys, t) ==
    [k \in DOMAIN keys |-> IF keys[k].exists /\ t >= keys[k].exp THEN NoKey ELSE keys[k]]

polling(ch) == ch.lpc = "get" /\ ch.q = <<>> /\ ch.waited < POLL_TIMEOUT
parked(ch) == ~ch.created \/ ch.lpc \in {"yield", "done"}

pass_time(ch) ==
    [ch EXCEPT !.waited = IF ch.lpc = "get" THEN POLL_TIMEOUT ELSE @]

TickQ ==
    /\ now % LONG_PAUSE < MaxTicks
    /\ \E t \in DOMAIN chan : polling(chan[t])
    /\ \A t \in DOMAIN chan : polling(chan[t]) \/ parked(chan[t])
    /\ now' = now + POLL_TIMEOUT
    /\ chan' = [t \in DOMAIN chan |-> pass_time(chan[t])]
    /\ belong' = expire(belong, now')
    /\ stopped' = expire(stopped, now')
    /\ UNCHANGED <<last_stop, varsRL, varsP>>

PauseQ ==
    /\ now + LONG_PAUSE < (MaxJumps + 1) * LONG_PAUSE
    /\ \E t \in Tasks : chan[t].lpc = "yield"
    /\ \A t \in Tasks : parked(chan[t])
    /\ now' = now + LONG_PAUSE
    /\ chan' = [t \in Tasks |-> pass_time(chan[t])]
    /\ belong' = expire(belong, now')
    /\ stopped' = expire(stopped, now')
    /\ UNCHANGED <<last_stop, varsRL, varsP>>

\* the consumer keeps its generator suspended for d seconds
Suspend(d) ==
    /\ now + d < (MaxJumps + 1) * LONG_PAUSE
    /\ \E t \in Tasks : chan[t].lpc = "yield"
    /\ \A t \in Tasks : parked(chan[t])
    /\ now' = now + d
    /\ chan' = [t \in Tasks |-> pass_time(chan[t])]
    /\ belong' = expire(belong, now')
    /\ stopped' = expire(stopped, now')
    /\ UNCHANGED <<last_stop, varsRL, varsP>>

\* the drain loop with a consumer that keeps pulling
ListenSteps(t) ==
    \/ ListenStart(t) \/ ListenGet(t) \/ ListenEmpty(t) \/ ListenResume(t)
    \/ ListenFinally(t) \/ ListenStopListen(t) \/ ListenPing(t)

\* who starts the tasks whose channel is followed
ChannelOwner == <<"debugger", "u1">>

NextQ ==
    \/ \E t \in Tasks : CreateTask(t, ChannelOwner)
    \/ \E t \in Tasks, f \in InvokeFroms, u \in UserIds : StopRequest(t, f, u)
    \/ \E t \in Tasks, e \in ProducerEvents : ProducerPublish(t, e)
    \/ \E t \in Tasks : ProducerSentinel(t)
    \/ \E t \in Tasks : ProducerFinish(t)
    \/ \E t \in Tasks : StopListen(t)
    \/ \E t \in Tasks : ListenStart(t)
    \/ \E t \in Tasks : ListenGet(t)
    \/ \E t \in Tasks : ListenEmpty(t)
    \/ \E t \in Tasks : ListenResume(t)
    \/ \E t \in Tasks : ListenFinally(t)
    \/ \E t \in Tasks : ListenStopListen(t)
    \/ \E t \in Tasks : ListenPing(t)
    \/ TickQ
    \/ PauseQ

SpecQ == Init /\ [][NextQ]_vars

(***************************************************************************)
(* The channel over the lifetime of a stop flag: as above, with a consumer *)
(* that suspends its generator for one second less than the lifetime of    *)
(* the flag.                                                               *)
(***************************************************************************)
NextLife ==
    \/ \E t \in Tasks : CreateTask(t, ChannelOwner)
    \/ \E t \in Tasks, f \in InvokeFroms, u \in UserIds : StopRequest(t, f, u)
    \/ \E t \in Tasks, e \in ProducerEvents : ProducerPublish(t, e)
    \/ \E t \in Tasks : ProducerSentinel(t)
    \/ \E t \in Tasks : ProducerFinish(t)
    \/ \E t \in Tasks : StopListen(t)
    \/ \E t \in Tasks : ListenStart(t)
    \/ \E t \in Tasks : ListenGet(t)
    \/ \E t \in Tasks : ListenEmpty(t)
    \/ \E t \in Tasks : ListenResume(t)
    \/ \E t \in Tasks : ListenFinally(t)
    \/ \E t \in Tasks : ListenStopListen(t)
    \/ \E t \in Tasks : ListenPing(t)
    \/ TickQ
    \/ Suspend(TASK_STOPPED_TTL - 1)

SpecLife == Init /\ [][NextLife]_vars

(***************************************************************************)
(* A drain followed second by second: the consumer pulls again as soon as  *)
(* it has an event, so time passes only while q.get blocks, one poll       *)
(* timeout at a time.  The producer publishes nothing and nobody asks for  *)
(* a stop.                                                                 *)
(***************************************************************************)
TickD ==
    /\ now < APP_MAX_EXECUTION_TIME + MaxTicks
    /\ \A t \in Tasks : polling(chan[t]) \/ ~chan[t].created \/ chan[t].lpc = "done"
    /\ \E t \in Tasks : polling(chan[t])
    /\ now' = now + POLL_TIMEOUT
    /\ chan' = [t \in Tasks |-> pass_time(chan[t])]
    /\ belong' = expire(belong, now')
    /\ stopped' = expire(stopped, now')
    /\ UNCHANGED <<last_stop, varsRL, varsP>>

NextDrain ==
    \/ \E t \in Tasks : CreateTask(t, ChannelOwner)
    \/ \E t \in Tasks : ProducerFinish(t)
    \/ \E t \in Tasks : ListenStart(t)
    \/ \E t \in Tasks : ListenGet(t)
    \/ \E t \in Tasks : ListenEmpty(t)
    \/ \E t \in Tasks : ListenResume(t)
    \/ \E t \in Tasks : ListenFinally(t)
    \/ \E t \in Tasks : ListenStopListen(t)
    \/ \E t \in Tasks : ListenPing(t)
    \/ TickD

SpecDrain == Init /\ [][NextDrain]_vars

\* The consumer keeps pulling, and time goes on while the loop waits.
FairSpecDrain ==
    /\ SpecDrain
    /\ \A t \in Tasks : WF_vars(ListenSteps(t))
    /\ WF_vars(TickD)

(***************************************************************************)
(* publish, lines 91-94: the dumped payload of the event is checked, then  *)
(* _publish runs.  A payload is a value of model_dump(): a dict, a list or *)
(* a tuple of payloads, or a leaf: a plain value, an instance of a         *)
(* SQLAlchemy model (it has _sa_instance_state) or a declarative model     *)
(* class (an instance of DeclarativeMeta).                                 *)
(***************************************************************************)
Leaves == {"plain", "model_instance", "model_class"}
Containers == {"dict", "list", "tuple"}
Leaf(kind) == [kind |-> kind, items |-> <<>>]

SeqsUpTo(S, n) == UNION {[1..k -> S] : k \in 0..n}

RECURSIVE Payloads(_)
Payloads(depth) ==
    IF depth = 0 THEN {Leaf(k) : k \in Leaves}
    ELSE LET inner == Payloads(depth - 1)
         IN  inner \cup {[kind |-> c, items |-> s] :
                            c \in Containers, s \in SeqsUpTo(inner, MaxWidth)}

\* a check that looks at the payload and at the values right inside it
_check_one_level(data) ==
    IF data.kind \in {"dict", "list"}
    THEN \E i \in 1..Len(data.items) :
            data.items[i].kind \in {"model_instance", "model_class"}
    ELSE data.kind \in {"model_instance", "model_class"}

\* _check_for_sqlalchemy_models, lines 150-163: TRUE when it raises TypeError
RECURSIVE _check_for_sqlalchemy_models(_)
_check_for_sqlalchemy_models(data) ==
    IF data.kind = "dict"
    THEN \E i \in 1..Len(data.items) : _check_for_sqlalchemy_models(data.items[i])
    ELSE IF data.kind = "list"
    THEN \E i \in 1..Len(data.items) : _check_for_sqlalchemy_models(data.items[i])
    ELSE data.kind = "model_class" \/ data.kind = "model_instance"

\* publish, lines 91-94, by the producer
Publish(t, data, type) ==
    LET raised == _check_for_sqlalchemy_models(data)
    IN  /\ chan[t].ppc = "run"
        /\ chan[t].sent < MaxPub
        /\ chan' = IF raised THEN chan ELSE [chan EXCEPT ![t] = _publish(t, type)]
        /\ last_publish' = Append(last_publish,
                                  [task |-> t, data |-> data, type |-> type,
                                   raised |-> raised,
                                   before |-> chan[t], after |-> chan'[t]])
        /\ UNCHANGED <<now, belong, stopped, last_stop, last_call, varsRL>>

\* the producer publishes events with plain payloads and, among them, events
\* with any payload
NextPub ==
    \/ \E t \in Tasks : CreateTask(t, ChannelOwner)
    \/ \E t \in Tasks, e \in ProducerEvents : ProducerPublish(t, e)
    \/ /\ Len(last_publish) < MaxChecked
       /\ \E t \in Tasks, data \in Payloads(MaxDepth), e \in ProducerEvents :
             Publish(t, data, e)
    \/ \E t \in Tasks : ProducerSentinel(t)

SpecPub == Init /\ [][NextPub]_vars

(***************************************************************************)
(* A request from admission to its stream: AppGenerateService.generate     *)
(* calls the app generator, which builds the queue manager of the task,    *)
(* starts the worker thread and returns the response; the runner publishes *)
(* and the response drains the channel.  One request thread is followed    *)
(* through the app generator, the other one competes for admission; no     *)
(* time passes and nobody asks for a stop.                                 *)
(***************************************************************************)
\* a request that creates the task although enter has raised
past_admission_or_refused(r) == r.pc \in {"generate", "except"}

\* app_generate_service.py lines 65-70: the app generator is called in the
\* try block after enter has returned
past_admission(r) == r.pc = "generate"

\* agent_chat/app_generator.py lines 184-191: the queue manager is built;
\* AppQueueManager.__init__, lines 30-46, writes the ownership record and
\* creates the queue
GenManager(p, t, o) ==
    /\ past_admission(req[p])
    /\ req[p].task = "none"
    /\ ~chan[t].created
    /\ belong' = [belong EXCEPT ![t] =
                     [exists |-> TRUE, val |-> belong_value(o[1], o[2]),
                      exp |-> now + TASK_BELONG_TTL]]
    /\ chan' = [chan EXCEPT ![t] = [NoChan EXCEPT !.created = TRUE,
                                                  !.invoke_from = o[1],
                                                  !.user_id = o[2]]]
    /\ req' = [req EXCEPT ![p].task = t]
    /\ UNCHANGED <<now, maxKey, active, activeExp, inst, wrap, maxEver,
                   stopped, last_stop, varsP>>

\* a worker started with a manager that has not been built
has_manager_or_not(r) == TRUE

\* agent_chat/app_generator.py lines 197-210: the worker thread is given
\* the queue manager built at lines 184-191
has_manager(r) == r.task # "none"

\* lines 197-210: worker_thread.start()
GenWorker(p, t) ==
    /\ req[p].pc = "generate"
    /\ has_manager(req[p])
    /\ req[p].task # "none" => t = req[p].task
    /\ chan[t].ppc = "none"
    /\ chan' = [chan EXCEPT ![t].ppc = "run"]
    /\ UNCHANGED <<now, belong, stopped, last_stop, varsRL, varsP>>

\* lines 213-223 and app_generate_service.py lines 83-91: the response is
\* returned and wrapped, or the call raises at any point
GenReturn(p, outcome, has_close) ==
    /\ outcome = "ok" =>
          /\ req[p].task # "none"
          /\ chan[req[p].task].ppc # "none"
    /\ AppGenerate(p, outcome, has_close)

NextFlow ==
    \/ \E p \in Procs, c \in Clients, m \in Limits, s \in BOOLEAN,
          d \in BOOLEAN : GenerateStart(p, c, m, s, d)
    \/ \E p \in Procs : EnterCount(p)
    \/ \E p \in Procs : EnterDecide(p)
    \/ \E p \in Watched, t \in Tasks : GenManager(p, t, ChannelOwner)
    \/ \E p \in Watched, t \in Tasks : GenWorker(p, t)
    \/ \E p \in Watched, o \in Outcomes : GenReturn(p, o, TRUE)
    \/ \E p \in Procs : Handler(p)
    \/ \E p \in Procs : RequestDone(p)
    \/ \E t \in Tasks, e \in ProducerEvents : ProducerPublish(t, e)
    \/ \E t \in Tasks : ProducerSentinel(t)
    \/ \E t \in Tasks : ProducerFinish(t)
    \/ \E t \in Tasks : ListenStart(t)
    \/ \E t \in Tasks : ListenGet(t)
    \/ \E t \in Tasks : ListenResume(t)
    \/ \E t \in Tasks : ListenFinally(t)

SpecFlow == Init /\ [][NextFlow]_vars

(***************************************************************************)
(* The worker with a runner that can fail: the runner publishes, returns   *)
(* or raises, the owner of the task asks for a stop at any time, and the   *)
(* consumer drains the channel.                                            *)
(***************************************************************************)
NextWorker ==
    \/ \E t \in Tasks : CreateTask(t, ChannelOwner)
    \/ \E t \in Tasks : StopRequest(t, ChannelOwner[1], ChannelOwner[2])
    \/ \E t \in Tasks, e \in ProducerEvents : ProducerPublish(t, e)
    \/ \E t \in Tasks : ProducerSentinel(t)
    \/ \E t \in Tasks : ProducerFinish(t)
    \/ \E t \in Tasks, exc \in RunnerErrors : RunnerRaise(t, exc)
    \/ \E t \in Tasks : ListenStart(t)
    \/ \E t \in Tasks : ListenGet(t)
    \/ \E t \in Tasks : ListenEmpty(t)
    \/ \E t \in Tasks : ListenResume(t)
    \/ \E t \in Tasks : ListenFinally(t)
    \/ \E t \in Tasks : ListenStopListen(t)
    \/ \E t \in Tasks : ListenPing(t)
    \/ TickQ

SpecWorker == Init /\ [][NextWorker]_vars

\* Threads keep running: the consumer keeps pulling from listen, and a
\* thread inside _publish reaches its stop_listen.
FairSpecQ ==
    /\ SpecQ
    /\ \A t \in Tasks : WF_vars(ListenSteps(t)) /\ WF_vars(ProducerSentinel(t))

(***************************************************************************)
(* Two tasks, both drained by their consumers: the owner of the first task *)
(* asks for its stop at any time, while the producer of the second task,   *)
(* of the same owner or of another one, publishes; nobody asks for the     *)
(* stop of the second task.                                                *)
(***************************************************************************)
TwoTasks == {"t1", "t2"}
StoppedTask == "t1"
OtherTasks == TwoTasks \ {StoppedTask}
OtherOwners == {ChannelOwner, <<"debugger", "u2">>}

InitTwoTasks ==
    /\ now = 0 /\ InitRL /\ last_publish = <<>> /\ last_call = NoCall
    /\ belong = [t \in TwoTasks |-> NoKey]
    /\ stopped = [k \in {_generate_stopped_cache_key(t) : t \in TwoTasks} |-> NoKey]
    /\ chan = [t \in TwoTasks |-> NoChan]
    /\ last_stop = <<>>

\* set_stop_flag, lines 106-118, with the call recorded in last_stop
StopTask(t, invoke_from, user_id) ==
    /\ SetStopFlag(t, invoke_from, user_id)
    /\ last_stop' = <<[task |-> t, invoke_from |-> invoke_from, user_id |-> user_id,
                       at |-> now,
                       had_record |-> belong[t].exists /\ now < belong[t].exp,
                       before |-> stop_flag(t)]>>

NextTwoTasks ==
    \/ CreateTask(StoppedTask, ChannelOwner)
    \/ StopTask(StoppedTask, ChannelOwner[1], ChannelOwner[2])
    \/ \E t \in OtherTasks, o \in OtherOwners : CreateTask(t, o)
    \/ \E t \in OtherTasks, e \in ProducerEvents : ProducerPublish(t, e)
    \/ \E t \in OtherTasks : ProducerSentinel(t)
    \/ \E t \in OtherTasks : ProducerFinish(t)
    \/ \E t \in TwoTasks : ListenStart(t)
    \/ \E t \in TwoTasks : ListenGet(t)
    \/ \E t \in TwoTasks : ListenEmpty(t)
    \/ \E t \in TwoTasks : ListenResume(t)
    \/ \E t \in TwoTasks : ListenFinally(t)
    \/ \E t \in TwoTasks : ListenStopListen(t)
    \/ \E t \in TwoTasks : ListenPing(t)
    \/ TickQ

SpecTwoTasks == InitTwoTasks /\ [][NextTwoTasks]_vars

(***************************************************************************)
(* The stop protocol alone: tasks are registered and stop requests arrive  *)
(* from any principal at any time.  last_stop records the latest request:  *)
(* its arguments, whether the ownership record was there, and the stop     *)
(* flag before the call.                                                   *)
(***************************************************************************)
StopCall(t, invoke_from, user_id) ==
    /\ SetStopFlag(t, invoke_from, user_id)
    /\ last_stop' = <<[task |-> t, invoke_from |-> invoke_from, user_id |-> user_id,
                       at |-> now,
                       had_record |-> belong[t].exists /\ now < belong[t].exp,
                       before |-> stop_flag(t)]>>

\* time passes between two requests
Elapse ==
    /\ now + LONG_PAUSE < (MaxJumps + 3) * LONG_PAUSE
    /\ now' = now + LONG_PAUSE
    /\ UNCHANGED <<varsRL, varsQ, varsP>>

NextStop ==
    \/ \E t \in Tasks, o \in Owners : CreateTask(t, o)
    \/ \E t \in Tasks, f \in InvokeFroms, u \in UserIds : StopCall(t, f, u)
    \/ Elapse

SpecStop == Init /\ [][NextStop]_vars

(***************************************************************************)
(* C1 - admission                                                          *)
(***************************************************************************)
EnterReturned(p) == req[p].pc = "generate" /\ req[p].rid # _UNLIMITED_REQUEST_ID
EnterRefused(p) ==
    req[p].pc = "except" /\ req[p].result = "AppInvokeQuotaExceededError"

\* C1 as stated: enter is refused whenever the lease hash holds at least
\* max_active_requests leases at the time of the call, and otherwise it
\* admits the request and inserts its lease.
C1_DecidedByCountAtCall ==
    \A p \in Procs :
        LET c == req[p].client
        IN  /\ EnterReturned(p) =>
                 /\ req[p].at_call < inst[p][c].max
                 /\ req[p].rid \in DOMAIN active[c]
            /\ EnterRefused(p) =>
                 /\ req[p].at_call >= inst[p][c].max
                 /\ req[p].rid \notin DOMAIN active[c]

\* C1 amended: the step of enter that follows its hlen refuses the request
\* and writes nothing when the count that hlen returned is at least
\* max_active_requests; otherwise it adds exactly the lease request_id -> now
\* to the hash, changes no other lease and returns request_id.
C1_DecidedByCountRead ==
    [][\A p \in Procs :
          LET c == req[p].client
              r == req[p].rid
          IN  (req[p].pc = "decide" /\ req'[p].pc # "decide") =>
                 IF req[p].cnt >= inst[p][c].max
                 THEN /\ req'[p].pc = "except"
                      /\ req'[p].result = "AppInvokeQuotaExceededError"
                      /\ active' = active
                 ELSE /\ req'[p].pc = "generate"
                      /\ req'[p].rid = r
                      /\ r \notin DOMAIN active[c]
                      /\ DOMAIN active'[c] = DOMAIN active[c] \cup {r}
                      /\ active'[c][r] = now
                      /\ \A k \in DOMAIN active[c] : active'[c][k] = active[c][k]]_vars

\* one request has been admitted and holds its lease while another has
\* been refused
C1_Witness ==
    \E p, q \in Procs :
        /\ EnterRefused(p) /\ req[p].cnt >= inst[p][req[p].client].max
        /\ EnterReturned(q) /\ req[q].rid \in DOMAIN active[req[q].client]

(***************************************************************************)
(* C2 - the number of leases                                               *)
(***************************************************************************)
\* C2: the lease hash of a client never holds more leases than the
\* greatest max_active_requests a limiter of that client has had.
C2_LeasesWithinLimit ==
    \A c \in Clients : maxEver[c] > 0 => hlen(active[c]) <= maxEver[c]

(***************************************************************************)
(* C3 - the leased stream releases once                                    *)
(***************************************************************************)
\* C3: exit has been called by the wrapper exactly once, and the lease is
\* gone, as soon as consumption has ended (exhaustion, an exception of the
\* wrapped generator, or close), and it has not been called before that.
C3_ExitExactlyOnce ==
    \A p \in Procs :
        wrap[p].open =>
            /\ wrap[p].exits = IF wrap[p].ended THEN 1 ELSE 0
            /\ wrap[p].ended => wrap[p].request_id \notin DOMAIN active[wrap[p].client]

\* a stream that gave its element and then ended, after its lease was held
C3_Witness ==
    \E p \in Procs :
        /\ wrap[p].open /\ wrap[p].ended /\ wrap[p].exits = 1
        /\ wrap[p].left = 0
        /\ wrap[p].request_id # _UNLIMITED_REQUEST_ID

(***************************************************************************)
(* C4 - generate releases the lease when it raises                         *)
(***************************************************************************)
\* C4: when generate has raised, no lease of its request is in the hash.
C4_NoLeaseAfterRaise ==
    \A p \in Procs :
        req[p].pc = "raised" => req[p].rid \notin DOMAIN active[req[p].client]

(***************************************************************************)
(* C5, C7, C8 - who may set the stop flag (SpecStop)                       *)
(***************************************************************************)
AccountLike == {"explore", "debugger"}
SameClass(f, g) == (f \in AccountLike) <=> (g \in AccountLike)

\* the latest stop request came from the principal that owns its task
FromOwner(ls) ==
    /\ SameClass(ls.invoke_from, chan[ls.task].invoke_from)
    /\ ls.user_id = chan[ls.task].user_id

FlagSetAt(time) == [exists |-> TRUE, val |-> 1, exp |-> time + TASK_STOPPED_TTL]

\* C5: after a stop request for a task whose ownership record was present,
\* made by a principal whose (class, id) differs from the owner's, the stop
\* flag of the task is what it was before the request.
C5_MismatchNeverSets ==
    \A i \in 1..Len(last_stop) :
        LET ls == last_stop[i]
        IN  (ls.had_record /\ ~FromOwner(ls)) => stop_flag(ls.task) = ls.before

\* a stop request of another user of the owner's class found the record and
\* left the task not stopped
C5_Witness ==
    \E i \in 1..Len(last_stop) :
        LET ls == last_stop[i]
        IN  /\ ls.had_record /\ ~FromOwner(ls)
            /\ SameClass(ls.invoke_from, chan[ls.task].invoke_from)
            /\ ~stop_flag(ls.task).exists

\* C7: after a stop request for a task id without ownership record, the stop
\* flag of the task is what it was before the request, whoever asked.
C7_UnknownTaskNoOp ==
    \A i \in 1..Len(last_stop) :
        LET ls == last_stop[i]
        IN  ~ls.had_record => stop_flag(ls.task) = ls.before

\* the owner asked after the record of its task had expired
C7_Witness ==
    \E i \in 1..Len(last_stop) :
        LET ls == last_stop[i]
        IN  /\ ~ls.had_record
            /\ chan[ls.task].created /\ FromOwner(ls)
            /\ ls.at >= belong[ls.task].exp
            /\ ~stop_flag(ls.task).exists

\* C8: a stop request with the owner's user id sets the flag exactly when
\* its invoke_from is of the owner's class: it is then set with the full
\* time to live, and otherwise left as it was.
C8_ClassAndIdDecide ==
    \A i \in 1..Len(last_stop) :
        LET ls == last_stop[i]
        IN  (ls.had_record /\ ls.user_id = chan[ls.task].user_id) =>
               IF SameClass(ls.invoke_from, chan[ls.task].invoke_from)
               THEN stop_flag(ls.task) = FlagSetAt(ls.at)
               ELSE stop_flag(ls.task) = ls.before

\* registered from the debugger, stopped from explore
C8_Witness ==
    \E i \in 1..Len(last_stop) :
        LET ls == last_stop[i]
        IN  /\ ls.had_record /\ ls.user_id = chan[ls.task].user_id
            /\ chan[ls.task].invoke_from = "debugger" /\ ls.invoke_from = "explore"
            /\ stop_flag(ls.task) = FlagSetAt(ls.at)

(***************************************************************************)
(* C9 - FIFO delivery (SpecQ)                                              *)
(***************************************************************************)
FromProducer(item) == item.n > 0
IsPrefix(a, b) == Len(a) <= Len(b) /\ SubSeq(b, 1, Len(a)) = a

\* C9: the producer's events that listen has yielded are, in order, a
\* prefix of the producer's events in the order of their publication, and
\* everything else listen has yielded is a Ping or a Stop of the loop.
C9_Fifo ==
    \A t \in Tasks :
        /\ IsPrefix(SelectSeq(chan[t].out, FromProducer),
                    SelectSeq(chan[t].hist, FromProducer))
        /\ \A i \in 1..Len(chan[t].out) :
              ~FromProducer(chan[t].out[i]) => chan[t].out[i] \in {PingEvent, StopEvent}

\* two events of the producer were yielded with a Ping of the loop between
C9_Witness ==
    \E t \in Tasks :
        /\ Len(SelectSeq(chan[t].out, FromProducer)) = 2
        /\ Len(chan[t].out) = 3 /\ chan[t].out[2] = PingEvent

(***************************************************************************)
(* C6 - a stop request ends the drain loop (FairSpecQ)                     *)
(***************************************************************************)
Drained(t) == chan[t].lpc = "done"
Yielded(t, item) == \E i \in 1..Len(chan[t].out) : chan[t].out[i] = item

\* C6 as stated: when listen has put a Stop event because of the stop flag
\* in an iteration that goes on looping, that Stop event has been yielded
\* by the time listen is over.
C6_StopAlwaysYielded ==
    \A t \in Tasks : (Drained(t) /\ chan[t].stop_at # 0) => Yielded(t, StopEvent)

\* C6 amended: the owner's request sets the flag; an iteration of listen
\* that finds the flag set puts a Stop event, and a loop that waits on the
\* queue does so within the poll timeout; if no close sentinel was queued
\* at that moment, the Stop event is yielded right after the events that
\* were queued before it, and listen ends.
C6_StopEndsDrain ==
    /\ [][\A t \in Tasks :
             (chan[t].created /\ StopRequest(t, chan[t].invoke_from, chan[t].user_id))
                => stop_flag(t)' = FlagSetAt(now)]_vars
    /\ [][\A t \in Tasks :
             (chan[t].lpc = "finally" /\ chan'[t].lpc # "finally" /\ _is_stopped(t))
                => /\ chan'[t].q = Append(chan[t].q, StopEvent)
                   /\ chan'[t].lpc = "stop_listen"]_vars
    /\ [](\A t \in Tasks :
             (chan[t].lpc = "get" /\ _is_stopped(t) /\ chan[t].stop_at = 0)
                => now - (stop_flag(t).exp - TASK_STOPPED_TTL) <= POLL_TIMEOUT)
    /\ [](\A t \in Tasks :
             (chan[t].stop_at > 0 /\ Len(chan[t].out) >= chan[t].stop_at)
                => chan[t].out[chan[t].stop_at] = StopEvent)
    /\ [](\A t \in Tasks :
             (chan[t].stop_at > 0 /\ Drained(t)) => Len(chan[t].out) >= chan[t].stop_at)
    /\ \A t \in Tasks : (chan[t].stop_at > 0) ~> Drained(t)

\* the loop was stopped by the flag after it had yielded an event of the
\* producer, and is over
C6_Witness ==
    \E t \in Tasks :
        /\ Drained(t) /\ chan[t].stop_at > 1
        /\ chan[t].out[chan[t].stop_at] = StopEvent
        /\ FromProducer(chan[t].out[1])
        /\ elapsed_time(t) < APP_MAX_EXECUTION_TIME

(***************************************************************************)
(* C10 - a terminal event or a close sentinel ends the drain loop          *)
(***************************************************************************)
Terminal(item) ==
    item.type \in {"QueueStopEvent", "QueueErrorEvent", "QueueMessageEndEvent",
                   "QueueAdvancedChatMessageEndEvent"}

\* the places of the close sentinels among everything put on the queue
Sentinels(t) == {i \in 1..Len(chan[t].hist) : chan[t].hist[i] = None}
\* the terminal events put while no close sentinel had been put
OpenTerminals(t) ==
    {i \in 1..Len(chan[t].hist) :
        Terminal(chan[t].hist[i]) /\ \A j \in Sentinels(t) : j > i}
Min(S) == CHOOSE x \in S : \A y \in S : x <= y

AfterEnd(t) ==
    {j \in 1..Len(chan[t].hist) :
        \E i \in 1..(j - 1) :
            /\ chan[t].hist[i].type = "QueueMessageEndEvent"
            /\ i + 1 < j /\ None \in {chan[t].hist[k] : k \in (i + 1)..(j - 1)}}

\* C11: no Message event of the producer is put on the queue of a channel
\* after an End event and its close sentinel have been put on it.
C11_LatePublishRejected ==
    \A t \in Tasks :
        \A j \in AfterEnd(t) : chan[t].hist[j].type # "QueueLLMChunkEvent"

(***************************************************************************)
(* C12 - payloads with SQLAlchemy models (SpecPub)                         *)
(***************************************************************************)
\* the payload holds a leaf of one of the kinds, inside dicts and lists only
RECURSIVE Holds(_, _)
Holds(data, kinds) ==
    \/ data.kind \in kinds
    \/ /\ data.kind \in {"dict", "list"}
       /\ \E i \in 1..Len(data.items) : Holds(data.items[i], kinds)

Enqueued(p) ==
    /\ ~p.raised
    /\ p.after.q = Append(p.before.q, Item(p.type, p.before.sent + 1))
    /\ p.after.hist = Append(p.before.hist, Item(p.type, p.before.sent + 1))

Rejected(p) == p.raised /\ p.after = p.before

OverBudget(t) == elapsed_time(t) >= APP_MAX_EXECUTION_TIME

\* C13: a listen that is pulled terminates; with no event of the producer
\* and no stop request, an iteration that finds the budget used up puts a
\* Stop event, the loop never waits on the queue with the budget used up,
\* the Stop event is the last thing yielded when listen is over, and no
\* step of listen changes where the producer is.
C13_BudgetEndsDrain ==
    /\ \A t \in Tasks : chan[t].created ~> Drained(t)
    /\ [][\A t \in Tasks :
             (chan[t].lpc = "finally" /\ chan'[t].lpc # "finally" /\ OverBudget(t))
                => /\ chan'[t].q = Append(chan[t].q, StopEvent)
                   /\ chan'[t].lpc = "stop_listen"]_vars
    /\ [](\A t \in Tasks : polling(chan[t]) => ~OverBudget(t))
    /\ [](\A t \in Tasks :
             Drained(t) => /\ chan[t].out # <<>>
                           /\ chan[t].out[Len(chan[t].out)] = StopEvent
                           /\ OverBudget(t))
    /\ [][\A t \in Tasks :
             ListenSteps(t) => /\ chan'[t].ppc = chan[t].ppc
                               /\ chan'[t].sent = chan[t].sent]_vars

\* listen is over after the budget, its last event is the Stop event, and
\* the worker thread still runs
C13_Witness ==
    \E t \in Tasks :
        /\ Drained(t) /\ OverBudget(t)
        /\ chan[t].out[Len(chan[t].out)] = StopEvent
        /\ chan[t].sent = 0 /\ ~stop_flag(t).exists
        /\ chan[t].ppc = "run"

(***************************************************************************)
(* C14 - the reason carried by the Stop event (SpecQ)                      *)
(***************************************************************************)
\* listen puts a Stop event in this step
PutsStop(t) ==
    /\ chan[t].lpc = "finally"
    /\ Len(chan'[t].hist) = Len(chan[t].hist) + 1
    /\ chan'[t].hist[Len(chan'[t].hist)].type = "QueueStopEvent"

\* C14: a Stop event that listen puts while the stop flag is set says that
\* it was stopped by the user, and one that it puts while the flag is not
\* set, the budget being used up, says that it was stopped by the timeout.
C14_StopCarriesCause ==
    [][\A t \in Tasks :
          PutsStop(t) =>
             LET e == chan'[t].hist[Len(chan'[t].hist)]
             IN  IF _is_stopped(t) THEN e.stopped_by = "USER_MANUAL"
                 ELSE e.stopped_by = "TIMEOUT"]_vars

(***************************************************************************)
(* C15 - the heartbeat (SpecDrain)                                         *)
(***************************************************************************)
IsPing(item) == item = PingEvent
Pings(t) == Len(SelectSeq(chan[t].out, IsPing))

\* C15: whenever the loop starts to wait on the queue, no event of the
\* producer having been published, the stop flag not set and the budget not
\* used up, it has yielded floor(elapsed / 10) Ping events and nothing else.
C15_PingEveryTenSeconds ==
    \A t \in Tasks :
        (polling(chan[t]) /\ chan[t].sent = 0 /\ ~_is_stopped(t) /\ ~OverBudget(t))
           => /\ Pings(t) = elapsed_time(t) \div PING_INTERVAL
              /\ Len(chan[t].out) = Pings(t)

\* at 9 seconds no Ping has been yielded; at 35 seconds, three
C15_Witness ==
    \E t \in Tasks :
        /\ polling(chan[t]) /\ chan[t].sent = 0 /\ ~_is_stopped(t)
        /\ elapsed_time(t) = 35 /\ Pings(t) = 3

(***************************************************************************)
(* C16 - C19: RateLimit called directly (SpecApi)                          *)
(***************************************************************************)
\* this step is a call of method op
Calls(op) == last_call' # last_call /\ last_call'.op = op
\* the instance the call of this step is made on, before the call
Callee == inst[last_call'.proc][last_call'.client]
CalleeHash == active[last_call'.client]
Store == <<maxKey, active, activeExp>>

\* C16: enter on a limiter whose limit is <= 0 returns the unlimited id,
\* whatever request id it is given, sends no command to the store and
\* leaves the store as it was.
C16_DisabledEnterIsFree ==
    [][(Calls("enter") /\ Callee.max <= 0)
          => /\ last_call'.result = _UNLIMITED_REQUEST_ID
             /\ last_call'.ops = <<>>
             /\ Store' = Store]_vars

\* enter with a request id of the caller on a limiter that was switched off
\* after it had admitted a request
C16_Witness ==
    /\ last_call.op = "enter" /\ last_call.arg = "r1"
    /\ last_call.result = _UNLIMITED_REQUEST_ID
    /\ inst[last_call.proc][last_call.client].initialized
    /\ inst[last_call.proc][last_call.client].max = 0
    /\ hlen(active[last_call.client]) > 0

\* C17: exit raises nothing, and an exit for an id that has no lease (a
\* second exit, or an id never admitted) leaves the lease hash as it was.
C17_ExitTotalIdempotent ==
    [][Calls("exit")
          => /\ last_call'.result = "None"
             /\ last_call'.arg \notin DOMAIN CalleeHash => active' = active]_vars

\* flush_cache ran in the call: it always writes or refreshes the config key
Flushed(call) == \E n \in 1..Len(call.ops) : call.ops[n] \in {"setex", "expire"}

\* C18: after a call in which flush_cache ran on an enabled limiter, no
\* lease of the client is older than 600 seconds.
C18_NoStaleLeaseAfterFlush ==
    [][(last_call' # last_call /\ Flushed(last_call'))
          => \A k \in DOMAIN active'[last_call'.client] :
                now - active'[last_call'.client][k] <= 600]_vars

\* flush_cache deleted a stale lease and kept a younger one
C18_Witness ==
    /\ last_call.op = "flush_cache"
    /\ \E n \in 1..Len(last_call.ops) : last_call.ops[n] = "hdel"
    /\ hlen(active[last_call.client]) > 0
    /\ \A k \in DOMAIN active[last_call.client] :
          now - active[last_call.client][k] <= 600

\* the leases of the client that are not older than 600 seconds
FreshLeases == {k \in DOMAIN CalleeHash : now - CalleeHash[k] <= 600}

\* C19: enter on an enabled limiter that holds as many leases as its limit
\* raises QuotaExceeded naming the client and the limit, and enter on one
\* that holds fewer leases than its limit is admitted.
C19_RefusedOnlyWhenFull ==
    [][(Calls("enter") /\ Callee.max > 0)
          => /\ Cardinality(FreshLeases) >= Callee.max
                  => last_call'.result = QuotaExceeded(last_call'.client, Callee.max)
             /\ hlen(CalleeHash) < Callee.max
                  => last_call'.result \in DOMAIN active'[last_call'.client]]_vars

\* C20: RateLimitGenerator.close is idempotent and propagates.  The first
\* close of a wrapper marks it closed, calls exit once, so that its lease
\* is no longer in the hash, and closes the wrapped generator when that has
\* a close method; every later close changes neither the wrapper nor the
\* Redis records and raises nothing; and a __next__ on a closed wrapper
\* raises StopIteration, takes nothing from the wrapped generator and
\* changes nothing.
Closing == wrap[last_call'.proc]

Closing_after == wrap'[last_call'.proc]

C20_CloseIdempotent ==
    [][/\ Calls("close") /\ ~Closing.closed =>
            /\ Closing_after.closed
            /\ Closing_after.exits = Closing.exits + 1
            /\ Closing.request_id \notin DOMAIN active'[Closing.client]
            /\ Closing_after.genClosed = Closing.has_close
            /\ last_call'.result = "None"
       /\ Calls("close") /\ Closing.closed =>
            /\ Closing_after = [Closing EXCEPT !.ended = TRUE]
            /\ Store' = Store
            /\ last_call'.ops = <<>>
            /\ last_call'.result = "None"
       /\ Calls("__next__") /\ Closing.closed =>
            /\ last_call'.result = "StopIteration"
            /\ Closing_after = Closing
            /\ Store' = Store
            /\ last_call'.ops = <<>>]_vars

\* a wrapper closed by close with items left in the wrapped generator, which
\* has a close method, after a __next__ on it raised StopIteration
C20_Witness ==
    /\ last_call.op = "__next__"
    /\ last_call.result = "StopIteration"
    /\ LET w == wrap[last_call.proc]
       IN  w.open /\ w.closed /\ w.left > 0 /\ w.genClosed /\ w.exits = 1
           /\ w.request_id # _UNLIMITED_REQUEST_ID

(***************************************************************************)
(* C21 - C23: _generate_worker (SpecWorker)                                *)
(***************************************************************************)
Cancelled(t) == chan[t].rexc = "GenerateTaskStoppedError"
WorkerOver(t) == chan[t].ppc = "done"
Errors(t) == {i \in 1..Len(chan[t].hist) : chan[t].hist[i].type = "QueueErrorEvent"}
Last(s) == s[Len(s)]

\* C21 as stated: when the runner ended with GenerateTaskStoppedError the
\* worker has published no Error event and has returned, and a stream
\* that is over ends with the Stop event.
C21_CancelledEndsWithStop ==
    \A t \in Tasks :
        Cancelled(t) =>
            /\ Errors(t) = {}
            /\ chan[t].wend = "returned"
            /\ Drained(t) => chan[t].out # <<>> /\ Last(chan[t].out) = StopEvent

\* C21 amended: when the runner ended with GenerateTaskStoppedError the
\* worker has published no Error event and has returned; a stream that is
\* over holds no Error event, and it has yielded the Stop event unless the
\* runner had published an End event, in the publish that was cancelled or
\* before it: the stream then holds that End event, whose close sentinel
\* can end it before the Stop event.
C21_CancelledNoError ==
    \A t \in Tasks :
        Cancelled(t) =>
            /\ Errors(t) = {}
            /\ chan[t].wend = "returned"
            /\ Drained(t) =>
                  /\ \A i \in 1..Len(chan[t].out) :
                        chan[t].out[i].type # "QueueErrorEvent"
                  /\ \/ Yielded(t, StopEvent)
                     \/ \E i \in 1..Len(chan[t].out) :
                           /\ chan[t].out[i].type = "QueueMessageEndEvent"
                           /\ FromProducer(chan[t].out[i])

\* the runner was cancelled in the publish of a chunk, and the stream is
\* over: the chunk, then the Stop event
C21_Witness ==
    \E t \in Tasks :
        /\ Cancelled(t) /\ Drained(t)
        /\ chan[t].out = <<Item("QueueLLMChunkEvent", 1), StopEvent>>

\* C22: for each failure of the runner other than GenerateTaskStoppedError
\* the worker publishes exactly one QueueErrorEvent on the channel of the
\* task, and that publish closes the channel: once the worker is over the
\* channel holds one Error event and a close sentinel after it.  Nothing
\* is raised in the thread that drains the stream: the worker ends by
\* returning, or with the GenerateTaskStoppedError of its own publish, in
\* its own thread.
Failed(t) == chan[t].rexc \in RunnerErrors

C22_FailureIsOneErrorEvent ==
    \A t \in Tasks :
        Failed(t) =>
            /\ Cardinality(Errors(t)) = 1
            /\ \A i \in Errors(t) : chan[t].hist[i] = Item("QueueErrorEvent", chan[t].sent)
            /\ WorkerOver(t) =>
                  /\ \E j \in Sentinels(t) : \A i \in Errors(t) : j > i
                  /\ chan[t].wend \in {"returned", "GenerateTaskStoppedError"}
            /\ \A i \in 1..Len(chan[t].out) : chan[t].out[i].type # "None"

\* the runner raised ValueError after a chunk; the stream is over and ended
\* with the Error event
C22_Witness ==
    \E t \in Tasks :
        /\ chan[t].rexc = "ValueError" /\ WorkerOver(t) /\ Drained(t)
        /\ chan[t].out = <<Item("QueueLLMChunkEvent", 1), Item("QueueErrorEvent", 2)>>

\* C23: whenever the worker is over, whatever the outcome of the runner, a
\* terminal event has been published and the channel of the task is
\* closed (a close sentinel has been put), also when the runner published
\* no terminal event itself.
C23_WorkerOverChannelClosed ==
    \A t \in Tasks :
        WorkerOver(t) =>
            /\ \E i \in 1..Len(chan[t].hist) : Terminal(chan[t].hist[i])
            /\ Sentinels(t) # {}

(***************************************************************************)
(* C24 - a failed admission creates nothing (SpecFlow)                     *)
(***************************************************************************)
DailyLimited(r) == r.pc = "raised" /\ r.rid = NoRid
QuotaRefused(r) ==
    r.pc \in {"except", "raised"} /\ r.result = "AppInvokeQuotaExceededError"

\* C24: a request refused by the daily limiter or by enter raises to its
\* caller (InvokeRateLimitError, AppInvokeQuotaExceededError) and has built
\* no queue manager, so no ownership record, no channel and no worker, and
\* holds no lease; the step that refuses it changes neither the task
\* records nor the lease hash; and a request that has not passed the daily
\* check and then enter has built no task.
C24_FailedAdmissionCreatesNothing ==
    /\ [](\A p \in Procs :
             /\ DailyLimited(req[p]) =>
                   /\ req[p].result = "InvokeRateLimitError"
                   /\ req[p].task = "none"
             /\ QuotaRefused(req[p]) =>
                   /\ req[p].task = "none"
                   /\ req[p].rid \notin DOMAIN active[req[p].client]
             /\ req[p].pc \in {"idle", "count", "decide"} => req[p].task = "none")
    /\ [][\A p \in Procs :
             (req'[p] # req[p] /\ (DailyLimited(req'[p]) \/ QuotaRefused(req'[p])))
                => /\ UNCHANGED <<belong, chan>>
                   /\ DOMAIN active'[req'[p].client] \subseteq DOMAIN active[req'[p].client]
                   /\ req'[p].task = "none"]_vars
    /\ [][\A p \in Procs :
             (req[p].task = "none" /\ req'[p].task # "none")
                => /\ req[p].pc = "generate"
                   /\ req[p].result = "none"]_vars

\* a request refused by enter while the task of an earlier request of the
\* thread exists and the lease of that request is held
C24_Witness ==
    \E p \in Procs :
        /\ QuotaRefused(req[p]) /\ req[p].pc = "raised"
        /\ \E t \in Tasks : chan[t].created
        /\ hlen(active[req[p].client]) > 0

(***************************************************************************)
(* C25 - the limit of an initialized limiter (SpecApi)                     *)
(***************************************************************************)
\* C25: constructing RateLimit(client_id, m) on a limiter that is already
\* initialized in the process leaves the limit of the instance as it was,
\* and the limit an initialized instance holds, which enter compares the
\* lease count against, is the value of the client's max_active_requests
\* key in the store.
ComparedLimit ==
    IF now - Callee.last > _ACTIVE_REQUESTS_COUNT_FLUSH_INTERVAL
    THEN flush_cache_inst(Callee, last_call'.client, FALSE).max
    ELSE Callee.max

C25_SharedLimitIsAuthoritative ==
    /\ [][(Calls("RateLimit") /\ Callee.exists /\ Callee.initialized)
              => inst'[last_call'.proc][last_call'.client].max = Callee.max]_vars
    /\ [][(Calls("enter") /\ Callee.exists /\ Callee.initialized /\ Callee.max > 0
              /\ maxKey[last_call'.client].exists)
              => ComparedLimit = maxKey[last_call'.client].val]_vars

(***************************************************************************)
(* C26 - every lease is released (FairSpecLease)                           *)
(***************************************************************************)
LeaseIds == {Uuids[p][n] : p \in Procs, n \in 1..MaxUuids}
Holds_lease(p, id) ==
    /\ req[p].rid = id
    /\ req[p].pc \in {"generate", "except", "streaming"}
    /\ id \in DOMAIN active[req[p].client]

\* C26: the lease inserted for an admitted streaming request is eventually
\* no longer in the lease hash when the consumer pulls the stream until it
\* ends or closes it, and the lease of a request that is not streamed is
\* not in the hash when generate has returned.
C26_LeaseEventuallyReleased ==
    /\ \A p \in Procs, id \in LeaseIds :
          (Holds_lease(p, id) /\ req[p].streaming)
             ~> (id \notin DOMAIN active[req[p].client])
    /\ [](\A p \in Procs :
             req[p].pc = "returned" => req[p].rid \notin DOMAIN active[req[p].client])

(***************************************************************************)
(* C27 - _get_max_active_requests (SpecMax)                                *)
(***************************************************************************)
\* C27: with a missing app limit read as 0, _get_max_active_requests
\* returns the smaller of the two limits when both are > 0, the one that
\* is > 0 when only one is, and 0 when neither is.
C27_MinOfPositiveLimits ==
    last_call.op = "_get_max_active_requests" =>
        LET a == IF last_call.arg.app_limit = <<>> THEN 0
                 ELSE last_call.arg.app_limit[1]
            g == last_call.arg.config_limit
            r == last_call.result
        IN  /\ (a > 0 /\ g > 0) => (r \in {a, g} /\ r <= a /\ r <= g)
            /\ (a > 0 /\ g <= 0) => r = a
            /\ (a <= 0 /\ g > 0) => r = g
            /\ (a <= 0 /\ g <= 0) => r = 0

\* an app without a limit of its own under a positive configured limit
C27_Witness ==
    /\ last_call.op = "_get_max_active_requests"
    /\ last_call.arg.app_limit = <<>>
    /\ last_call.arg.config_limit = 3
    /\ last_call.result = 3

(***************************************************************************)
(* C28 - the RateLimit objects of two processes are one limiter (SpecApi)   *)
(***************************************************************************)
\* this step is an enter that was admitted by an enabled limiter
Admits ==
    /\ Calls("enter") /\ Callee.max > 0
    /\ last_call'.result \in DOMAIN active'[last_call'.client]

\* C28: the RateLimit objects that the processes hold for one client count
\* and insert into one lease hash.  With enter calls that do not overlap,
\* an admitted enter leaves no more leases in the hash, whichever process
\* inserted them, than the limit it compared the count against; the hash
\* never holds more leases than the greatest max_active_requests an object
\* of the client was given; and exit on an object that has been enabled
\* removes the lease of its request id, whichever object admitted it.
C28_OneLogicalLimiter ==
    [][/\ \A c \in Clients : hlen(active'[c]) <= maxEver'[c]
       /\ Admits => hlen(active'[last_call'.client]) <= ComparedLimit
       /\ (Calls("exit") /\ Callee.initialized)
             => last_call'.arg \notin DOMAIN active'[last_call'.client]]_vars

\* p2's exit has deleted a lease that p1's enter inserted under a request
\* id p1 generated, while the hash was full with the leases of both
C28_Witness ==
    /\ last_call.op = "exit" /\ last_call.proc = "p2"
    /\ last_call.arg = Uuids["p1"][1]
    /\ last_call.hdel_reply = 1
    /\ \E k \in DOMAIN active[last_call.client] :
          /\ k \in {Uuids["p2"][n] : n \in 1..MaxUuids}
          /\ hlen(active[last_call.client]) + 1 = inst["p2"][last_call.client].max

(***************************************************************************)
(* C29 - the ownership record comes first (SpecFlow)                        *)
(***************************************************************************)
\* C29: the ownership record of a task is written before the producer
\* worker of the task is started and before any event of the task is
\* published: no channel has a started worker or holds an event while the
\* task's ownership record has never been written.
C29_OwnershipBeforeEvents ==
    \A t \in Tasks :
       (chan[t].ppc # "none" \/ chan[t].hist # <<>>) => belong[t].exists

\* the worker of a request's task has published an event into the channel
C29_Witness ==
    \E p \in Watched :
       /\ req[p].task \in Tasks
       /\ chan[req[p].task].ppc = "run"
       /\ chan[req[p].task].hist # <<>>
       /\ belong[req[p].task].exists

(***************************************************************************)
(* C30 - enter reconciles at most every 300 seconds (SpecApi)               *)
(***************************************************************************)
\* the call of this step was refused with the quota error
Refused == last_call'.result = QuotaExceeded(last_call'.client, ComparedLimit)

\* the position of a command among the Redis commands of a call, 0 if absent
Position(call, cmd) ==
    IF \E n \in 1..Len(call.ops) : call.ops[n] = cmd
    THEN CHOOSE n \in 1..Len(call.ops) :
            call.ops[n] = cmd /\ \A k \in n + 1..Len(call.ops) : call.ops[k] # cmd
    ELSE 0

\* C30: in enter on an enabled limiter, when more than 300 seconds have
\* passed since the limiter's last reconciliation, flush_cache runs before
\* the lease count is read, and the call is refused exactly when the leases
\* not older than 600 seconds are as many as the limit; when 300 seconds or
\* less have passed, flush_cache does not run and the call is refused
\* exactly when all leases, stale ones included, are as many as the limit.
C30_ReconcileBeforeCount ==
    [][(Calls("enter") /\ Callee.max > 0) =>
          /\ now - Callee.last > 300 =>
                /\ Flushed(last_call')
                /\ Position(last_call', "hdel") < Position(last_call', "hlen")
                /\ Position(last_call', "expire") < Position(last_call', "hlen")
                /\ Refused <=> Cardinality(FreshLeases) >= ComparedLimit
                /\ \A k \in DOMAIN active'[last_call'.client] :
                      now - active'[last_call'.client][k] <= 600
          /\ now - Callee.last <= 300 =>
                /\ ~Flushed(last_call')
                /\ last_call'.ops[1] = "hlen"
                /\ Refused <=> hlen(CalleeHash) >= Callee.max
                /\ DOMAIN CalleeHash \subseteq DOMAIN active'[last_call'.client]]_vars

\* an enter that reconciled first: it deleted a stale lease that filled the
\* limit, read the count after that and was admitted
C30_Witness ==
    /\ last_call.op = "enter"
    /\ Position(last_call, "hdel") > 0
    /\ Position(last_call, "hdel") < Position(last_call, "hlen")
    /\ last_call.result \in DOMAIN active[last_call.client]
    /\ hlen(active[last_call.client]) = inst[last_call.proc][last_call.client].max

\* an enter within 300 seconds of the last reconciliation: refused by a
\* lease older than 600 seconds
C30_StaleCounted ==
    /\ last_call.op = "enter"
    /\ ~Flushed(last_call)
    /\ last_call.result \notin DOMAIN active[last_call.client]
    /\ last_call.result # _UNLIMITED_REQUEST_ID
    /\ \E k \in DOMAIN active[last_call.client] :
          now - active[last_call.client][k] > 600

(***************************************************************************)
(* C31 - a reconcile renews both expiries (SpecApi)                         *)
(***************************************************************************)
\* the leases of the client that a reconcile at this time leaves in the hash
Survivors == {k \in DOMAIN CalleeHash : now - CalleeHash[k] <= 600}

\* C31: after every call in which flush_cache ran on an enabled limiter,
\* the config record exists and expires one day from now, and the lease
\* hash, if the reconcile found leases and left some, expires one day from
\* now.
C31_ReconcileRenewsExpiry ==
    [][(last_call' # last_call /\ Flushed(last_call'))
          => /\ maxKey'[last_call'.client].exists
             /\ maxKey'[last_call'.client].exp = now + 86400
             /\ Survivors # {} => activeExp'[last_call'.client] = now + 86400]_vars

\* a reconcile at a later time found the config record and a lease that is
\* not stale, and renewed both expiries
C31_Witness ==
    /\ last_call.op = "flush_cache"
    /\ Position(last_call, "get") > 0
    /\ now > 0
    /\ maxKey[last_call.client].exists
    /\ maxKey[last_call.client].exp = now + 86400
    /\ hlen(active[last_call.client]) > 0
    /\ activeExp[last_call.client] = now + 86400

(***************************************************************************)
(* C32 - at most one Ping per 10 seconds (SpecQ)                            *)
(***************************************************************************)
\* the Ping events listen has put on the queue of the task
PingsInjected(t) == Len(SelectSeq(chan[t].hist, IsPing))

\* this step puts a Ping event on the queue of the task
PingPut(t) ==
    /\ Len(chan'[t].hist) > Len(chan[t].hist)
    /\ IsPing(chan'[t].hist[Len(chan'[t].hist)])

\* C32: however the drain loop is scheduled, with a consumer that suspends
\* the generator and a producer that publishes, the Pings injected by
\* elapsed time T are at most floor(T / 10): they are at most the last-ping
\* bucket index, which is at most floor(T / 10); a Ping is injected only
\* into a bucket later than that of the Ping before, and the index never
\* decreases.
C32_OnePingPerBucket ==
    /\ [](\A t \in Tasks :
             /\ PingsInjected(t) <= chan[t].last_ping_time
             /\ chan[t].last_ping_time <= (now - chan[t].start_time) \div 10)
    /\ [][\A t \in Tasks :
             /\ chan'[t].last_ping_time >= chan[t].last_ping_time
             /\ PingPut(t) =>
                   /\ Len(chan'[t].hist) = Len(chan[t].hist) + 1
                   /\ chan'[t].last_ping_time > chan[t].last_ping_time]_vars

\* polls in three consecutive seconds of one bucket, after a suspended
\* consumer has come back, have injected one Ping
C32_Witness ==
    \E t \in Tasks :
       /\ PingsInjected(t) = 1
       /\ chan[t].last_ping_time = 60
       /\ now - chan[t].start_time = 602
       /\ chan[t].lpc = "get"

(***************************************************************************)
(* C33 - who is told about the stop flag (SpecWorker)                       *)
(***************************************************************************)
\* this step is a q.put of an event by the producer of the task
ProducerPut(t) == chan'[t].sent = chan[t].sent + 1

\* this step ends a _publish of the producer that has called stop_listen
ProducerClosed(t) == chan[t].ppc = "sentinel" /\ chan'[t].ppc # "sentinel"

\* the producer's publish of this step has raised GenerateTaskStoppedError,
\* in the runner or in publish_error of the worker
RaisedStopped(t) ==
    /\ chan'[t].ppc = "done"
    /\ \/ chan[t].rexc = "none" /\ chan'[t].rexc = "GenerateTaskStoppedError"
       \/ chan[t].rexc # "none" /\ chan'[t].wend = "GenerateTaskStoppedError"

\* C33: while the stop flag of a task is set, every publish made with
\* PublishFrom.APPLICATION_MANAGER raises GenerateTaskStoppedError, after
\* its event has been put on the queue; the publishes that listen makes
\* with PublishFrom.TASK_PIPELINE never raise it; and a producer that
\* unwinds on the error puts no event after one that it has put while the
\* flag was set.
C33_StoppedPublishRaises ==
    /\ [][\A t \in Tasks :
             /\ (ProducerPut(t) /\ _is_stopped(t)) =>
                   /\ Last(chan'[t].hist).n = chan'[t].sent
                   /\ is_terminal(Last(chan'[t].hist).type)
                         => chan'[t].ppc = "sentinel"
                   /\ ~is_terminal(Last(chan'[t].hist).type) => RaisedStopped(t)
             /\ (ProducerClosed(t) /\ _is_stopped(t)) =>
                   /\ RaisedStopped(t)
                   /\ Last(chan'[t].hist) = None
             /\ chan[t].ppc = "done" => ~ProducerPut(t)]_vars
    /\ [](\A t \in Tasks : chan[t].lpc # "raised")

\* the flag is set, listen has injected its Stop event and gone on, and the
\* producer has put one more event and has been unwound by the error
C33_Witness ==
    \E t \in Tasks :
       /\ _is_stopped(t)
       /\ chan[t].rexc = "GenerateTaskStoppedError"
       /\ chan[t].ppc = "done"
       /\ \E k \in 1..Len(chan[t].hist) : chan[t].hist[k].type = "QueueStopEvent"
       /\ Last(chan[t].hist).type = "QueueLLMChunkEvent"
       /\ chan[t].lpc \in {"get", "finally", "done"}

(***************************************************************************)
(* C34 - the worker closes the database session (SpecWorker)                *)
(***************************************************************************)
\* this step is the end of the worker of the task
WorkerEnds(t) == chan[t].wend = "none" /\ chan'[t].wend # "none"

\* C34: on every way out of _generate_worker (the runner returns, the
\* runner is cancelled, the runner fails with an error of any except
\* clause, publish_error itself raises) the database session is closed
\* exactly once: not before the worker ends, once when it ends, and by then
\* the Error event of a failure and its close sentinel are on the queue.
C34_SessionClosedOnce ==
    /\ [](\A t \in Tasks :
             chan[t].db_closed = IF chan[t].wend = "none" THEN 0 ELSE 1)
    /\ [][\A t \in Tasks :
             (WorkerEnds(t) /\ chan'[t].rexc \in RunnerErrors) =>
                /\ Last(chan'[t].hist) = None
                /\ \E k \in 1..Len(chan'[t].hist) :
                      chan'[t].hist[k] = Item("QueueErrorEvent", chan'[t].sent)]_vars

\* the runner has failed, publish_error has put the Error event and has
\* raised GenerateTaskStoppedError out of the worker: the session is closed
C34_Witness ==
    \E t \in Tasks :
       /\ chan[t].rexc \in RunnerErrors
       /\ chan[t].wend = "GenerateTaskStoppedError"
       /\ chan[t].db_closed = 1

(***************************************************************************)
(* C35 - nothing is yielded after a terminal event (SpecQ)                  *)
(***************************************************************************)
\* C35: however the Stop event that listen injects and a publish of the
\* producer interleave, each of them putting its event and then the close
\* sentinel in two steps, a terminal event that listen has yielded is the
\* last event it has yielded, so the consumer receives at most one.
C35_TerminalIsLastYielded ==
    \A t \in Tasks :
       \A i \in 1..Len(chan[t].out) :
          Terminal(chan[t].out[i]) => i = Len(chan[t].out)

(***************************************************************************)
(* C36 - the worker ends by returning (SpecWorker)                          *)
(***************************************************************************)
\* C36: _generate_worker never ends with an exception that nothing has
\* caught: whatever the runner raises and whenever the stop flag is set,
\* a worker that is over has returned.
C36_WorkerReturns ==
    \A t \in Tasks : chan[t].wend \in {"none", "returned"}

(***************************************************************************)
(* C37 - a reconcile keeps the leases that are not stale (SpecApi)          *)
(***************************************************************************)
\* C37: a call in which flush_cache ran leaves every lease that was at most
\* 600 seconds old in the hash with the timestamp it had; the one lease an
\* enter writes itself after its reconcile is the lease of its request id.
C37_ReconcileKeepsFresh ==
    [][(last_call' # last_call /\ Flushed(last_call'))
          => \A k \in Survivors :
                /\ k \in DOMAIN active'[last_call'.client]
                /\ (last_call'.op = "enter" /\ k = last_call'.result)
                   \/ active'[last_call'.client][k] = CalleeHash[k]]_vars

\* a reconcile has run on a hash with a lease that is exactly 600 seconds
\* old, and the lease is still there
C37_Witness ==
    /\ last_call.op = "flush_cache"
    /\ Position(last_call, "hgetall") > 0
    /\ \E k \in DOMAIN active[last_call.client] :
          now - active[last_call.client][k] = 600

(***************************************************************************)
(* C38 - exit releases one lease (SpecTwoClients)                           *)
(***************************************************************************)
\* C38: exit(r) removes at most the lease keyed r of its client: every
\* other lease of that client, and every lease of another client, the one
\* keyed r included, is in its hash afterwards with the timestamp it had,
\* and no lease is added.
C38_ExitReleasesOneLease ==
    [][Calls("exit") =>
          \A c \in TwoClients :
             /\ DOMAIN active'[c] \subseteq DOMAIN active[c]
             /\ \A k \in DOMAIN active[c] :
                   \/ c = last_call'.client /\ k = last_call'.arg
                   \/ k \in DOMAIN active'[c] /\ active'[c][k] = active[c][k]]_vars

\* exit has deleted the lease keyed r1 of app-1 and has left another lease
\* of app-1 and the lease keyed r1 of app-2
C38_Witness ==
    /\ last_call.op = "exit" /\ last_call.client = "app-1"
    /\ last_call.arg = "r1" /\ last_call.hdel_reply = 1
    /\ hlen(active["app-1"]) > 0
    /\ "r1" \in DOMAIN active["app-2"]

\* The exit that AppGenerateService.generate issues for a request that
\* enter has refused (app_generate_service.py lines 145-147, with the
\* request id of line 64) leaves the lease hashes as they are (Spec).
C38_RefusedExitReleasesNothing ==
    [][\A p \in Procs :
          (EnterRefused(p) /\ req'[p] # req[p]) => active' = active]_vars

(***************************************************************************)
(* C39 - the stop flag stays set for its lifetime (SpecLife)                *)
(***************************************************************************)
\* C39: a stop flag that is set stays set, with an expiry that is never
\* brought forward, in every step that ends before its expiry: no step of
\* the producer, of the drain loop or of time deletes it, and a stop
\* request of the owner made while it is set gives it a fresh lifetime of
\* TASK_STOPPED_TTL seconds.  A flag that is set expires at most
\* TASK_STOPPED_TTL seconds on.
C39_StopFlagMonotonic ==
    /\ [](\A t \in Tasks :
            _is_stopped(t) =>
               /\ stop_flag(t).val = 1
               /\ stop_flag(t).exp - now \in 1..TASK_STOPPED_TTL)
    /\ [][\A t \in Tasks :
            (_is_stopped(t) /\ now' < stop_flag(t).exp) =>
               /\ _is_stopped(t)'
               /\ stop_flag(t)'.exp >= stop_flag(t).exp
               /\ stop_flag(t)' # stop_flag(t) => stop_flag(t)' = FlagSetAt(now)]_vars

\* the flag was set or renewed one second after the start and is still
\* set in the last second of its lifetime, the drain loop having yielded
\* an event in between
C39_Witness ==
    /\ _is_stopped("t1")
    /\ stop_flag("t1").exp = 1 + TASK_STOPPED_TTL
    /\ now = TASK_STOPPED_TTL
    /\ chan["t1"].lpc = "yield"

(***************************************************************************)
(* C40 - a stop is confined to its task (SpecTwoTasks)                      *)
(***************************************************************************)
IsStop(item) == item # None /\ item.type = "QueueStopEvent"

\* C40: a call of set_stop_flag for a task leaves the stop flag of every
\* other task, the ownership records and the channels as they are; and
\* while stop requests have been made for the first task only, the second
\* task is never stopped: its drain loop puts no Stop event, neither of
\* its publishers raises GenerateTaskStoppedError, and its worker does not
\* end by that error.
C40_StopIsPerTask ==
    /\ [](\A t \in OtherTasks :
            /\ ~_is_stopped(t)
            /\ \A n \in 1..Len(chan[t].hist) : ~IsStop(chan[t].hist[n])
            /\ chan[t].lpc # "raised"
            /\ chan[t].rexc # "GenerateTaskStoppedError"
            /\ chan[t].wend # "GenerateTaskStoppedError")
    /\ [][last_stop' # last_stop =>
            /\ \A t \in TwoTasks \ {last_stop'[1].task} : stop_flag(t)' = stop_flag(t)
            /\ belong' = belong /\ chan' = chan]_vars

\* the first task was stopped at time 0 by its owner and its drain loop has
\* handed out the Stop event; the second task, of the same owner, was
\* polled after that, has published its End event and has been drained to
\* the end with a worker that returned
C40_Witness ==
    /\ last_stop # <<>> /\ last_stop[1].at = 0 /\ last_stop[1].task = StoppedTask
    /\ _is_stopped(StoppedTask)
    /\ \E n \in 1..Len(chan[StoppedTask].out) : IsStop(chan[StoppedTask].out[n])
    /\ \E t \in OtherTasks :
          /\ chan[t].user_id = chan[StoppedTask].user_id
          /\ chan[t].start_time >= 1
          /\ chan[t].lpc = "done"
          /\ chan[t].wend = "returned"
          /\ \E n \in 1..Len(chan[t].out) : chan[t].out[n].type = "QueueMessageEndEvent"

====
